---- MODULE Spec2Model ----
(***************************************************************************)
(* A model of the tokio-kafka client core (src/client/client.rs) and of    *)
(* the consumer group coordinator (src/consumer/coordinator.rs).           *)
(*                                                                         *)
(* The client keeps a metadata status (Loading with a list of one-shot     *)
(* senders, or Loaded with a snapshot).  LoadMetadata futures fetch a new  *)
(* snapshot and publish it; typed RPCs first await a snapshot through      *)
(* State::metadata and then route a request with it.                       *)
(*                                                                         *)
(* Every action is one poll of a task on the single-threaded event loop,   *)
(* or one call made by the user of the library.                            *)
(***************************************************************************)
EXTENDS Integers, Sequences, FiniteSets, TLC

(***************************************************************************)
(* Bounds of the model.                                                    *)
(***************************************************************************)
\* LoadMetadata futures created during one run of the client model
MaxLoads == 2
\* produce_records calls made by the user
MaxProduce == 2
\* join_group calls made on the coordinator
MaxJoins == 2
\* leave_group calls made on the coordinator
MaxLeaves == 1
\* width in bits of the CorrelationId the model counts with (i32 in the code)
CorrelationBits == 3
\* requests in flight to one broker through Inner.service
MaxInFlight == 2
\* calls made to one address through the InFlightMiddleware of middleware.rs
MaxCalls == 2
\* messages of one message set
MaxMessages == 2
\* bytes of an input of the length-prefixed parsers
MaxBuf == 6

(***************************************************************************)
(* The cluster as the brokers report it.                                   *)
(***************************************************************************)
\* config.hosts, the bootstrap addresses, in configuration order
Hosts == <<"h1", "h2">>
HostSet == {Hosts[i] : i \in 1..Len(Hosts)}
\* broker ids a Metadata response can list
Brokers == {1, 2}
\* "no broker": the None of Option<Broker>
NoBroker == 0

\* What a Metadata response can say: the brokers, and the leader of the one
\* partition the model produces to (NoBroker: the partition has no leader).
Topologies ==
    {[brokers |-> {}, leader |-> NoBroker], [brokers |-> {1}, leader |-> 1],
     [brokers |-> {1, 2}, leader |-> NoBroker]}

\* The value a pending one-shot channel or an unset field holds.
NoMd == [by |-> 0, brokers |-> {}, leader |-> NoBroker, api |-> "none"]
NoAddr == <<"none", 0>>

VARIABLES
    config,            \* ClientConfig: metadata_max_age > 0, api_version_request
    metadata_status,   \* State.metadata_status
    chan,              \* the oneshot channels created by State::metadata
    loads,             \* the LoadMetadata futures, in creation order
    timeouts,          \* pending Timeout futures spawned by load_metadata
    produces,          \* the futures returned by KafkaClient::produce_records
    coord_state,       \* the coordinator's State: Unjoined, Rebalancing or Stable
    joins,             \* the futures returned by ConsumerCoordinator::join_group
    beats,             \* the heartbeat loops spawned by Inner::synced_group
    leaves,            \* the futures returned by ConsumerCoordinator::leave_group
    overflow_checks,   \* the build panics on integer overflow (debug profile)
    correlation_id,    \* State.correlation_id
    issued,            \* the ids next_correlation_id has returned, in order
    panicked,          \* a call of next_correlation_id has panicked
    in_flight,         \* requests sent to each broker by Inner.service, not yet answered
    requests,          \* InFlightMiddleware.requests of Inner.service (client.rs)
    picked,            \* the last call of Inner::least_loaded_broker and its result
    mw_requests,       \* State.requests of the InFlightMiddleware of middleware.rs
    mw_calls,          \* per address, the calls made through it and what became of them
    codec_version,     \* the version the encoder and the parser are given
    message_set,       \* MessageSet.messages, as handed to the encoder
    request,           \* the RequestHeader of the request being encoded
    fetch,             \* the fields of the Fetch response a broker sends
    buf,               \* the bytes written by an encoder, read by a parser
    damage,            \* what happened to buf between the two
    parsed,            \* the parser that ran and its IResult
    timing,            \* the durations ConsumerCoordinator::new was given
    offsets            \* the future returned by KafkaClient::fetch_offsets

coordVars == <<coord_state, joins, beats, leaves>>
serviceVars == <<overflow_checks, correlation_id, issued, panicked, in_flight, requests, picked>>
mwVars == <<mw_requests, mw_calls>>
codecVars == <<codec_version, message_set, request, fetch, buf, damage, parsed>>
clientVars == <<config, metadata_status, chan, loads, timeouts, produces>>
vars == <<config, metadata_status, chan, loads, timeouts, produces,
          coord_state, joins, beats, leaves, serviceVars, mwVars, codecVars, timing, offsets>>

(***************************************************************************)
(* One-shot channels.  A channel is named by the future that holds its     *)
(* receiver.                                                               *)
(***************************************************************************)
ProduceIds == 1..(MaxProduce + 1)
WaiterIds ==
    {<<"produce", i, "rpc">> : i \in ProduceIds} \cup
    {<<"join", j, slot>> : j \in 1..(MaxJoins + 1), slot \in {"md", "rpc"}} \cup
    {<<"hb", k, "rpc">> : k \in 1..(MaxJoins + 1)} \cup
    {<<"leave", n, "rpc">> : n \in 1..(MaxLeaves + 1)}

\* the channel does not exist / sender queued in Loading / value sent
ChanNone == [st |-> "none", val |-> NoMd]
ChanOpen == [st |-> "open", val |-> NoMd]
ChanSent(md) == [st |-> "sent", val |-> md]

(***************************************************************************)
(* impl State (client.rs)                                                  *)
(***************************************************************************)
Loading(ws) == [tag |-> "Loading", waiters |-> ws, md |-> NoMd]
Loaded(md) == [tag |-> "Loaded", waiters |-> <<>>, md |-> md]

\* State::metadata: queue the sender while Loading, send at once when Loaded.
\* Yields the new status and channels.
metadata(ms, ch, w) ==
    IF ms.tag = "Loading"
    THEN [ms |-> Loading(Append(ms.waiters, w)), ch |-> [ch EXCEPT ![w] = ChanOpen]]
    ELSE [ms |-> ms, ch |-> [ch EXCEPT ![w] = ChanSent(ms.md)]]

\* State::refresh_metadata
refresh_metadata(ms) ==
    IF ms.tag = "Loaded" THEN Loading(<<>>) ELSE ms

\* An update_metadata that publishes but forgets the senders after the first.
update_metadata_first_only(ms, ch, md) ==
    [ms |-> Loaded(md),
     ch |-> IF ms.tag = "Loading" /\ ms.waiters # <<>>
            THEN [ch EXCEPT ![ms.waiters[1]] = ChanSent(md)]
            ELSE ch]

\* State::update_metadata: publish md and resolve the queued senders with it.
update_metadata(ms, ch, md) ==
    [ms |-> Loaded(md),
     ch |-> IF ms.tag = "Loading"
            THEN [w \in WaiterIds |->
                    IF \E i \in 1..Len(ms.waiters) : ms.waiters[i] = w
                    THEN ChanSent(md) ELSE ch[w]]
            ELSE ch]

(***************************************************************************)
(* LoadMetadata (client.rs)                                                *)
(***************************************************************************)
\* Inner::fetch_metadata: one Metadata request to every bootstrap address.
fetch_metadata == HostSet

\* LoadMetadata::new: start the fetch, then State::refresh_metadata.
NewLoad == [st |-> "Metadata", pending |-> fetch_metadata, md |-> NoMd, av |-> {}]

LoadMetadata_new ==
    /\ Len(loads) < MaxLoads
    /\ loads' = Append(loads, NewLoad)
    /\ metadata_status' = refresh_metadata(metadata_status)

\* KafkaClient::load_metadata, called by the user of the client.
load_metadata ==
    /\ LoadMetadata_new
    /\ timeouts' = IF config.metadata_max_age > 0 THEN timeouts + 1 ELSE timeouts
    /\ UNCHANGED <<codecVars, timing, offsets, serviceVars, mwVars, config, chan, produces, coordVars>>

\* The Timeout spawned by load_metadata fires: LoadMetadata::new(inner).
TimeoutFired ==
    /\ timeouts > 0
    /\ LoadMetadata_new
    /\ timeouts' = timeouts - 1
    /\ UNCHANGED <<codecVars, timing, offsets, serviceVars, mwVars, config, chan, produces, coordVars>>

\* Loading::Finished in LoadMetadata::poll: publish and complete.  The snapshot
\* goes to the caller and the future is gone.
Finish(l, md) ==
    LET r == update_metadata(metadata_status, chan, md) IN
    /\ metadata_status' = r.ms
    /\ chan' = r.ch
    /\ loads' = [loads EXCEPT ![l] = [st |-> "Done", pending |-> {}, md |-> NoMd, av |-> {}]]

\* LoadMetadata::poll in Loading::Metadata, select_ok yields the response of
\* host h.  Without api_version_request the fallback table is attached and the
\* loop goes on to Loading::Finished in the same poll.
PollMetadataReady(l, h, topo) ==
    /\ l \in 1..Len(loads)
    /\ loads[l].st = "Metadata"
    /\ h \in loads[l].pending
    /\ LET fetched == [by |-> l, brokers |-> topo.brokers, leader |-> topo.leader,
                       api |-> "none"] IN
       IF config.api_version_request
       THEN IF fetched.brokers = {}
            THEN Finish(l, [fetched EXCEPT !.api = "probed"])
            ELSE /\ loads' = [loads EXCEPT ![l] = [st |-> "ApiVersions", pending |-> {},
                                                   md |-> fetched, av |-> fetched.brokers]]
                 /\ UNCHANGED <<metadata_status, chan>>
       ELSE Finish(l, [fetched EXCEPT !.api = "fallback"])
    /\ UNCHANGED <<codecVars, timing, offsets, serviceVars, mwVars, config, timeouts, produces, coordVars>>

\* A select_ok that fails with the first request that fails.
PollMetadataFailedFirst(l, h) ==
    /\ l \in 1..Len(loads)
    /\ loads[l].st = "Metadata"
    /\ h \in loads[l].pending
    /\ loads' = [loads EXCEPT ![l] = [st |-> "Failed", pending |-> {}, md |-> NoMd, av |-> {}]]
    /\ UNCHANGED <<codecVars, timing, offsets, serviceVars, mwVars, config, metadata_status, chan, timeouts, produces, coordVars>>

\* The request to host h failed; select_ok fails when it was the last one.
PollMetadataFailed(l, h) ==
    /\ l \in 1..Len(loads)
    /\ loads[l].st = "Metadata"
    /\ h \in loads[l].pending
    /\ loads' = [loads EXCEPT ![l] =
                    IF loads[l].pending = {h}
                    THEN [st |-> "Failed", pending |-> {}, md |-> NoMd, av |-> {}]
                    ELSE [@ EXCEPT !.pending = @ \ {h}]]
    /\ UNCHANGED <<codecVars, timing, offsets, serviceVars, mwVars, config, metadata_status, chan, timeouts, produces, coordVars>>

\* A poll that publishes with the first ApiVersions response.
PollApiVersionsReadyFirst(l, b) ==
    /\ l \in 1..Len(loads)
    /\ loads[l].st = "ApiVersions"
    /\ b \in loads[l].av
    /\ Finish(l, [loads[l].md EXCEPT !.api = "probed"])
    /\ UNCHANGED <<codecVars, timing, offsets, serviceVars, mwVars, config, timeouts, produces, coordVars>>

\* LoadMetadata::poll in Loading::ApiVersions: broker b answered; join_all is
\* ready when every broker has.
PollApiVersionsReady(l, b) ==
    /\ l \in 1..Len(loads)
    /\ loads[l].st = "ApiVersions"
    /\ b \in loads[l].av
    /\ IF loads[l].av = {b}
       THEN Finish(l, [loads[l].md EXCEPT !.api = "probed"])
       ELSE /\ loads' = [loads EXCEPT ![l].av = @ \ {b}]
            /\ UNCHANGED <<metadata_status, chan>>
    /\ UNCHANGED <<codecVars, timing, offsets, serviceVars, mwVars, config, timeouts, produces, coordVars>>

\* join_all fails with the first failed ApiVersions request.
PollApiVersionsFailed(l, b) ==
    /\ l \in 1..Len(loads)
    /\ loads[l].st = "ApiVersions"
    /\ b \in loads[l].av
    /\ loads' = [loads EXCEPT ![l] = [st |-> "Failed", pending |-> {}, md |-> NoMd, av |-> {}]]
    /\ UNCHANGED <<codecVars, timing, offsets, serviceVars, mwVars, config, metadata_status, chan, timeouts, produces, coordVars>>

(***************************************************************************)
(* KafkaClient::produce_records                                            *)
(***************************************************************************)
\* during: the metadata status the call was made in; result, code: what the
\* future completed with
NoProduce ==
    [st |-> "none", during |-> "none", md |-> NoMd, addr |-> NoAddr,
     result |-> "none", code |-> "none"]

\* What comes back for a Produce request: a response whose partition carries
\* an error code ("None": no error), or a failure of the call.
ProduceOk == [kind |-> "response", code |-> "None"]
ProduceOutcomes ==
    {ProduceOk,
     [kind |-> "response", code |-> "NotLeaderForPartition"],
     [kind |-> "failed", code |-> "NetworkException"]}

\* The address Inner::produce_records routes to: the leader of the partition,
\* else the first bootstrap address.
ProduceAddr(md) ==
    IF md.leader # NoBroker THEN <<"broker", md.leader>> ELSE <<"host", 1>>

\* KafkaClient::produce_records: await the metadata, then Inner::produce_records.
produce_records(i) ==
    /\ i \in 1..MaxProduce
    /\ produces[i].st = "none"
    /\ \A k \in 1..(i - 1) : produces[k].st # "none"
    /\ LET r == metadata(metadata_status, chan, <<"produce", i, "rpc">>) IN
       /\ metadata_status' = r.ms
       /\ chan' = r.ch
    /\ produces' = [produces EXCEPT ![i].st = "wait", ![i].during = metadata_status.tag]
    /\ UNCHANGED <<codecVars, timing, offsets, serviceVars, mwVars, config, loads, timeouts, coordVars>>

\* A produce_records that does not wait for its receiver and routes with
\* whatever the status holds.
ProducePollEager(i) ==
    /\ i \in 1..MaxProduce
    /\ produces[i].st = "wait"
    /\ produces' = [produces EXCEPT ![i].st = "sent", ![i].md = metadata_status.md,
                                    ![i].addr = ProduceAddr(metadata_status.md)]
    /\ UNCHANGED <<codecVars, timing, offsets, serviceVars, mwVars, config, metadata_status, chan, loads, timeouts, coordVars>>

\* The future is polled with its receiver ready: Inner::produce_records sends.
ProducePoll(i) ==
    /\ i \in 1..MaxProduce
    /\ produces[i].st = "wait"
    /\ chan[<<"produce", i, "rpc">>].st = "sent"
    /\ LET md == chan[<<"produce", i, "rpc">>].val IN
       produces' = [produces EXCEPT ![i].st = "sent", ![i].md = md, ![i].addr = ProduceAddr(md)]
    /\ chan' = [chan EXCEPT ![<<"produce", i, "rpc">>] = ChanNone]
    /\ UNCHANGED <<codecVars, timing, offsets, serviceVars, mwVars, config, metadata_status, loads, timeouts, coordVars>>

\* The Produce response (or a failure of the call) arrives: a response
\* completes the future with Ok of the (partition, error_code, offset) it
\* lists, a failed call with its error.
ProduceResponse(i, out) ==
    /\ i \in 1..MaxProduce
    /\ produces[i].st = "sent"
    /\ produces' = [produces EXCEPT ![i] =
                       [NoProduce EXCEPT !.st = "done",
                                         !.result = IF out.kind = "response" THEN "Ok" ELSE "Err",
                                         !.code = out.code]]
    /\ UNCHANGED <<codecVars, timing, offsets, serviceVars, mwVars, config, metadata_status, chan, loads, timeouts, coordVars>>

(***************************************************************************)
(* KafkaClient::fetch_offsets                                              *)
(***************************************************************************)
\* the partitions a caller can ask about, and the leaders a snapshot can name
\* for them (NoBroker: leader_for finds none)
TopicPartitions == {<<"t1", 0>>, <<"t1", 1>>, <<"t2", 0>>}
PartitionLeaders == [TopicPartitions -> Brokers \cup {NoBroker}]

\* what a ListOffsets response holds for a partition: error code None and an
\* offset, an error code, or error code None and an empty list of offsets
PartitionAnswers == {"offset", "error", "empty"}
\* the responses to a request, whatever partitions it lists
ListOffsetsAnswers == UNION {[ps -> PartitionAnswers] : ps \in SUBSET TopicPartitions}

\* no call of fetch_offsets yet
NoOffsets ==
    [pc |-> "idle", requested |-> {}, topics |-> <<>>, pending |-> {}, got |-> {},
     result |-> {}]

\* Inner::topics_by_broker: the partitions that have a leader, by leader
topics_by_broker(leaders, partitions) ==
    [b \in {leaders[tp] : tp \in {p \in partitions : leaders[p] # NoBroker}} |->
        {tp \in partitions : leaders[tp] = b}]

\* the closure of and_then in Inner::fetch_offsets: flat_map over a Result
\* keeps the partitions answered without an error code
partition_offsets(answers) == {tp \in DOMAIN answers : answers[tp] # "error"}

\* KafkaClient::fetch_offsets with the snapshot awaited: topics_by_broker,
\* then one ListOffsets request for every broker; join_all of no request is
\* ready at once.
fetch_offsets(leaders, partitions) ==
    /\ offsets.pc = "idle"
    /\ LET topics == topics_by_broker(leaders, partitions) IN
       offsets' = [pc |-> IF DOMAIN topics = {} THEN "ok" ELSE "sent",
                   requested |-> partitions, topics |-> topics, pending |-> DOMAIN topics,
                   got |-> {}, result |-> {}]
    /\ UNCHANGED <<codecVars, timing, serviceVars, mwVars, clientVars, coordVars>>

\* The ListOffsets response of broker b arrives.  unwrap panics on an empty
\* list of offsets; join_all is ready with the last response, and the fold
\* merges what the closures kept.
ListOffsetsResponse(b, answers) ==
    /\ offsets.pc = "sent"
    /\ b \in offsets.pending
    /\ DOMAIN answers = offsets.topics[b]
    /\ offsets' =
         IF \E tp \in DOMAIN answers : answers[tp] = "empty"
         THEN [offsets EXCEPT !.pc = "panicked", !.pending = {}]
         ELSE LET got == offsets.got \cup partition_offsets(answers) IN
              IF offsets.pending = {b}
              THEN [offsets EXCEPT !.pc = "ok", !.pending = {}, !.got = got, !.result = got]
              ELSE [offsets EXCEPT !.pending = @ \ {b}, !.got = got]
    /\ UNCHANGED <<codecVars, timing, serviceVars, mwVars, clientVars, coordVars>>

\* The call to broker b fails, or its response is not a ListOffsets response:
\* join_all fails with it.
ListOffsetsFailed(b) ==
    /\ offsets.pc = "sent"
    /\ b \in offsets.pending
    /\ offsets' = [offsets EXCEPT !.pc = "err", !.pending = {}]
    /\ UNCHANGED <<codecVars, timing, serviceVars, mwVars, clientVars, coordVars>>

(***************************************************************************)
(* Metadata lookups used for routing.                                      *)
(***************************************************************************)
\* A lookup that resolves every reference.
find_broker_any(md, ref) == ref

\* Metadata::find_broker: the broker a BrokerRef names in the snapshot.
find_broker(md, ref) == IF ref \in md.brokers THEN ref ELSE NoBroker

\* metadata.brokers().first(), the brokers listed by ascending id
first_broker(md) == CHOOSE b \in md.brokers : \A c \in md.brokers : b <= c

\* the SocketAddr of broker b
BrokerAddr(b) == <<"broker", b>>

\* Option<usize>
None == [some |-> FALSE, n |-> 0]
Some(n) == [some |-> TRUE, n |-> n]

\* HashMap::new(), HashMap::get(addr).cloned(), entry(addr).or_insert(0)
EmptyMap == [a \in {} |-> 0]
in_flight_requests(table, addr) ==
    IF addr \in DOMAIN table THEN Some(table[addr]) ELSE None
or_insert(table, addr) ==
    [a \in DOMAIN table \cup {addr} |-> IF a \in DOMAIN table THEN table[a] ELSE 0]

\* usize::max_value(): larger than any count of the model
usize_max == 2147483647

\* the orders rand::thread_rng().shuffle can leave a broker list in
Orders(brokers) ==
    {o \in [1..Cardinality(brokers) -> brokers] :
        \A i, k \in 1..Cardinality(brokers) : i # k => o[i] # o[k]}

\* results of Inner::least_loaded_broker
PickOk(b) == [tag |-> "Ok", broker |-> b, err |-> "none"]
PickErr(e) == [tag |-> "Err", broker |-> NoBroker, err |-> e]

\* The loop of Inner::least_loaded_broker over the shuffled brokers, from
\* position i on, with the least count seen and the broker it was seen at.
\* unresolved: the brokers whose address to_socket_addrs fails on.
RECURSIVE ScanBrokers(_, _, _, _, _, _)
ScanBrokers(order, i, least, found, table, unresolved) ==
    IF i > Len(order) THEN [early |-> FALSE, result |-> PickOk(found)]
    ELSE IF order[i] \in unresolved THEN [early |-> TRUE, result |-> PickErr("Io")]
    ELSE LET n == in_flight_requests(table, BrokerAddr(order[i])) IN
         IF n.some /\ n.n = 0 THEN [early |-> TRUE, result |-> PickOk(order[i])]
         ELSE IF n.some /\ n.n < least
              THEN ScanBrokers(order, i + 1, n.n, order[i], table, unresolved)
              ELSE ScanBrokers(order, i + 1, least, found, table, unresolved)

\* Inner::least_loaded_broker on the snapshot md, the shuffle giving order:
\* the result of the loop, else the first broker, else BrokerNotAvailable.
least_loaded_broker_in(md, order, unresolved) ==
    LET scan == ScanBrokers(order, 1, usize_max, NoBroker, requests, unresolved) IN
    IF scan.early \/ scan.result.broker # NoBroker THEN scan.result
    ELSE IF md.brokers # {} THEN PickOk(first_broker(md))
    ELSE PickErr("BrokerNotAvailable")

\* Inner::least_loaded_broker where every address resolves: the broker, or
\* NoBroker for BrokerNotAvailable.
least_loaded_broker(md) ==
    LET order == CHOOSE o \in Orders(md.brokers) : TRUE
        r == least_loaded_broker_in(md, order, {}) IN
    IF r.tag = "Ok" THEN r.broker ELSE NoBroker

(***************************************************************************)
(* State::next_correlation_id and the calls of Inner.service               *)
(***************************************************************************)
\* CorrelationId is a signed integer of CorrelationBits bits
MinId == -(2 ^ (CorrelationBits - 1))
MaxId == (2 ^ (CorrelationBits - 1)) - 1
\* the two's complement value of an integer
wrap(x) == ((x - MinId) % (2 ^ CorrelationBits)) + MinId
wrapping_add(x, y) == wrap(x + y)

\* State::next_correlation_id: the counter after the call, and what the call
\* yields: `self.correlation_id - 1` overflows when the counter has wrapped to
\* the least value; the build then panics or wraps.
next_correlation_id(c, checks) ==
    LET c1 == wrapping_add(c, 1) IN
    [correlation_id |-> c1,
     panic |-> (c1 - 1 < MinId) /\ checks,
     id |-> wrap(c1 - 1)]

\* the model numbers at most one full cycle of ids
MaxIssued == 2 ^ CorrelationBits

\* Inner sends a request to broker b: it takes the next correlation id and
\* hands the request to Inner.service, whose call forwards it upstream.
service_call(b) ==
    /\ ~panicked
    /\ Len(issued) < MaxIssued
    /\ in_flight[b] < MaxInFlight
    /\ LET r == next_correlation_id(correlation_id, overflow_checks) IN
       /\ correlation_id' = r.correlation_id
       /\ panicked' = r.panic
       /\ issued' = IF r.panic THEN issued ELSE Append(issued, r.id)
       /\ in_flight' = IF r.panic THEN in_flight ELSE [in_flight EXCEPT ![b] = @ + 1]
    /\ UNCHANGED <<codecVars, timing, offsets, overflow_checks, requests, picked, mwVars, clientVars, coordVars>>

\* The request to broker b is answered, fails or times out.
service_response(b) ==
    /\ ~panicked
    /\ in_flight[b] > 0
    /\ in_flight' = [in_flight EXCEPT ![b] = @ - 1]
    /\ UNCHANGED <<codecVars, timing, offsets, overflow_checks, correlation_id, issued, panicked, requests, picked,
                   mwVars, clientVars, coordVars>>

\* nothing picked yet
NoPick == [called |-> FALSE, brokers |-> {}, load |-> [b \in Brokers |-> 0],
           result |-> PickErr("none")]

\* Inner::least_loaded_broker is called with the snapshot topo: the brokers,
\* the requests in flight to each at the call, and the result.
select_least_loaded(topo, order, unresolved) ==
    /\ ~panicked
    /\ order \in Orders(topo.brokers)
    /\ unresolved \subseteq topo.brokers
    /\ picked' = [called |-> TRUE, brokers |-> topo.brokers, load |-> in_flight,
                  result |-> least_loaded_broker_in(topo, order, unresolved)]
    /\ UNCHANGED <<codecVars, timing, offsets, overflow_checks, correlation_id, issued, panicked, in_flight, requests,
                   mwVars, clientVars, coordVars>>

(***************************************************************************)
(* InFlightMiddleware (middleware.rs)                                      *)
(***************************************************************************)
\* the addresses calls are made to
Addrs == {<<"host", i>> : i \in 1..Len(Hosts)} \cup {BrokerAddr(b) : b \in Brokers}

checked_add(n) == IF n < usize_max THEN Some(n + 1) ELSE None
checked_sub(n) == IF n > 0 THEN Some(n - 1) ELSE None

\* A received_response that leaves the table as it is.
received_response_ignored(table, addr) == table

\* State::send_request, State::received_response (middleware.rs)
send_request(table, addr) ==
    LET t == or_insert(table, addr) IN
    IF checked_add(t[addr]).some THEN [t EXCEPT ![addr] = checked_add(t[addr]).n] ELSE t
received_response(table, addr) ==
    LET t == or_insert(table, addr) IN
    IF checked_sub(t[addr]).some THEN [t EXCEPT ![addr] = checked_sub(t[addr]).n] ELSE t

NoCalls == [issued |-> 0, completed |-> 0, dropped |-> 0]
\* the futures of calls to addr that are alive and not completed
Alive(addr) == mw_calls[addr].issued - mw_calls[addr].completed - mw_calls[addr].dropped

\* InFlightMiddleware::call: send_request, then the upstream call
InFlightMiddleware_call(addr) ==
    /\ mw_calls[addr].issued < MaxCalls
    /\ mw_requests' = send_request(mw_requests, addr)
    /\ mw_calls' = [mw_calls EXCEPT ![addr].issued = @ + 1]
    /\ UNCHANGED <<codecVars, timing, offsets, serviceVars, clientVars, coordVars>>

\* The upstream future of a call to addr completes with a response, an error
\* or a timeout: the `then` closure runs received_response.
upstream_completes(addr, outcome) ==
    /\ Alive(addr) > 0
    /\ outcome \in {"response", "error", "timeout"}
    /\ mw_requests' = received_response(mw_requests, addr)
    /\ mw_calls' = [mw_calls EXCEPT ![addr].completed = @ + 1]
    /\ UNCHANGED <<codecVars, timing, offsets, serviceVars, clientVars, coordVars>>

\* The future of a call to addr is dropped before the upstream completes: the
\* closure never runs.
future_dropped(addr) ==
    /\ Alive(addr) > 0
    /\ mw_calls' = [mw_calls EXCEPT ![addr].dropped = @ + 1]
    /\ UNCHANGED <<codecVars, timing, offsets, mw_requests, serviceVars, clientVars, coordVars>>

(***************************************************************************)
(* Requests and responses of the group APIs.                               *)
(***************************************************************************)
GroupId == "g"
MemberIds == {"m1", "m2"}
GenerationIds == {1, 2}
Protocol == "range"

NoReq == [api |-> "none", to |-> NoAddr, group_id |-> "", generation_id |-> 0,
          member_id |-> ""]
Req(api, b, gid, gen, mid) ==
    [api |-> api, to |-> <<"broker", b>>, group_id |-> gid, generation_id |-> gen,
     member_id |-> mid]

\* error codes a Heartbeat response carries, and a failed call
HeartbeatErrors ==
    {"RebalanceInProgress", "IllegalGeneration", "UnknownMemberId", "NetworkException"}

\* what a JoinGroup response carries: generation, member id, id of the leader
JoinGroupResponses ==
    {[generation_id |-> 1, member_id |-> "m1", leader_id |-> ld] : ld \in MemberIds} \cup
    {[generation_id |-> 2, member_id |-> "m2", leader_id |-> ld] : ld \in MemberIds}

\* JoinGroupResponse.members, the members the coordinator lists
Members == <<"m1", "m2">>

\* Option<Vec<ConsumerGroupAssignment>>: None, Some(list)
NoAssignment == [some |-> FALSE, list |-> <<>>]
SomeAssignment(list) == [some |-> TRUE, list |-> list]
\* Option::unwrap_or_default in Inner::sync_group
unwrap_or_default(opt) == IF opt.some THEN opt.list ELSE <<>>

(***************************************************************************)
(* enum State, struct Generation (coordinator.rs, client.rs)               *)
(***************************************************************************)
NoGeneration == [group_id |-> "", generation_id |-> 0, member_id |-> "", protocol |-> ""]
Unjoined == [tag |-> "Unjoined", coordinator |-> NoBroker, generation |-> NoGeneration]
Rebalancing == [tag |-> "Rebalancing", coordinator |-> NoBroker, generation |-> NoGeneration]
Stable(c, g) == [tag |-> "Stable", coordinator |-> c, generation |-> g]

\* State::member_id, with unwrap_or_default applied
member_id(st) == IF st.tag = "Stable" THEN st.generation.member_id ELSE ""
\* A joined that keeps the coordinator but not the generation it was given.
joined_without_generation(st, c, g) == Stable(c, NoGeneration)

\* A leave that gives up a membership but does not touch another state.
leave_if_stable(st) == IF st.tag = "Stable" THEN Unjoined ELSE st

\* State::rebalance, State::joined, State::leave: the state left behind
rebalance(st) == Rebalancing
joined(st, c, g) == Stable(c, g)
leave(st) == Unjoined

\* A test that takes every member for the leader.
is_leader_always(res) == TRUE

\* ConsumerGroup::is_leader
is_leader(res) == res.leader_id = res.member_id

\* Inner::perform_assignment, when it succeeds: one assignment per member
perform_assignment(members) ==
    [i \in 1..Len(members) |-> [member_id |-> members[i], member_assignment |-> "partitions"]]

\* ConsumerGroup::generation
generation(gid, res) ==
    [group_id |-> gid, generation_id |-> res.generation_id, member_id |-> res.member_id,
     protocol |-> Protocol]

(***************************************************************************)
(* A typed RPC made inside a running task: State::metadata, and the        *)
(* and_then closure at once when the snapshot is there.  Send(rec, md) is  *)
(* the closure; waitpc the position taken when the sender was queued.      *)
(***************************************************************************)
AwaitThen(w, rec, waitpc, Send(_, _)) ==
    LET r == metadata(metadata_status, chan, w) IN
    IF r.ch[w].st = "sent"
    THEN [ms |-> r.ms, ch |-> [r.ch EXCEPT ![w] = ChanNone], rec |-> Send(rec, r.ch[w].val)]
    ELSE [ms |-> r.ms, ch |-> r.ch, rec |-> [rec EXCEPT !.pc = waitpc]]

(***************************************************************************)
(* ConsumerCoordinator::join_group                                         *)
(***************************************************************************)
\* performed: perform_assignment was run; group_assignment: the Option handed
\* to sync_group; sync_assignment: the list the SyncGroup request carries
NewJoin(mid) ==
    [pc |-> "gc_wait", member_id |-> mid, coordinator |-> NoBroker,
     generation |-> NoGeneration, leader_id |-> "", performed |-> FALSE,
     group_assignment |-> NoAssignment, sync_assignment |-> <<>>,
     req |-> NoReq, err |-> "none"]

\* A completed future holds nothing but its outcome; the error
\* BrokerNotFound(coordinator) carries the reference that did not resolve.
JoinErr(jr, e) ==
    [NewJoin("") EXCEPT !.pc = "err", !.err = e,
                        !.coordinator = IF e = "BrokerNotFound" THEN jr.coordinator
                                        ELSE NoBroker]
JoinOk == [NewJoin("") EXCEPT !.pc = "ok"]

\* Inner::group_coordinator: GroupCoordinator request to the least loaded broker
send_group_coordinator(jr, md) ==
    IF least_loaded_broker(md) = NoBroker
    THEN JoinErr(jr, "BrokerNotAvailable")
    ELSE [jr EXCEPT !.pc = "gc_sent",
                    !.req = Req("GroupCoordinator", least_loaded_broker(md), GroupId, 0, "")]

\* KafkaClient::join_group: find_broker, then Inner::join_group
send_join_group(jr, md) ==
    IF find_broker(md, jr.coordinator) = NoBroker
    THEN JoinErr(jr, "BrokerNotFound")
    ELSE [jr EXCEPT !.pc = "jg_sent",
                    !.req = Req("JoinGroup", jr.coordinator, GroupId, 0, jr.member_id)]

\* KafkaClient::sync_group: find_broker, then Inner::sync_group
send_sync_group(jr, md) ==
    IF find_broker(md, jr.coordinator) = NoBroker
    THEN JoinErr(jr, "BrokerNotFound")
    ELSE [jr EXCEPT !.pc = "sg_sent",
                    !.sync_assignment = unwrap_or_default(jr.group_assignment),
                    !.req = Req("SyncGroup", jr.coordinator, jr.generation.group_id,
                                jr.generation.generation_id, jr.generation.member_id)]

\* The map_err at the end of join_group: an error leaves the group.
JoinSettle(j, jr) ==
    /\ joins' = [joins EXCEPT ![j] = jr]
    /\ coord_state' = IF jr.pc = "err" THEN leave(coord_state) ELSE coord_state

\* ConsumerCoordinator::join_group, called by the user of the coordinator.
join_group ==
    /\ Len(joins) < MaxJoins
    /\ LET j == Len(joins) + 1
           st == rebalance(coord_state)
           r1 == metadata(metadata_status, chan, <<"join", j, "md">>)
           r2 == metadata(r1.ms, r1.ch, <<"join", j, "rpc">>) IN
       /\ coord_state' = st
       /\ joins' = Append(joins, NewJoin(member_id(st)))
       /\ metadata_status' = r2.ms
       /\ chan' = r2.ch
    /\ UNCHANGED <<codecVars, timing, offsets, serviceVars, mwVars, config, loads, timeouts, produces, beats, leaves>>

\* The join future is polled with its snapshot ready: Inner::group_coordinator.
JoinPollGroupCoordinator(j) ==
    /\ j \in 1..Len(joins)
    /\ joins[j].pc = "gc_wait"
    /\ chan[<<"join", j, "md">>].st = "sent"
    /\ chan[<<"join", j, "rpc">>].st = "sent"
    /\ JoinSettle(j, send_group_coordinator(joins[j], chan[<<"join", j, "rpc">>].val))
    /\ chan' = [chan EXCEPT ![<<"join", j, "md">>] = ChanNone,
                            ![<<"join", j, "rpc">>] = ChanNone]
    /\ UNCHANGED <<codecVars, timing, offsets, serviceVars, mwVars, config, metadata_status, loads, timeouts, produces, beats, leaves>>

\* The GroupCoordinator response names broker c: KafkaClient::join_group.
GroupCoordinatorResponse(j, c) ==
    /\ j \in 1..Len(joins)
    /\ joins[j].pc = "gc_sent"
    /\ LET r == AwaitThen(<<"join", j, "rpc">>, [joins[j] EXCEPT !.coordinator = c],
                          "jg_wait", send_join_group) IN
       /\ metadata_status' = r.ms
       /\ chan' = r.ch
       /\ JoinSettle(j, r.rec)
    /\ UNCHANGED <<codecVars, timing, offsets, serviceVars, mwVars, config, loads, timeouts, produces, beats, leaves>>

\* A request of the join fails, or its response carries an error code.
JoinResponseError(j) ==
    /\ j \in 1..Len(joins)
    /\ joins[j].pc \in {"gc_sent", "jg_sent", "sg_sent"}
    /\ JoinSettle(j, JoinErr(joins[j], "KafkaError"))
    /\ UNCHANGED <<codecVars, timing, offsets, serviceVars, mwVars, config, metadata_status, chan, loads, timeouts, produces, beats, leaves>>

\* The snapshot awaited by KafkaClient::join_group is there.
JoinPollJoinGroup(j) ==
    /\ j \in 1..Len(joins)
    /\ joins[j].pc = "jg_wait"
    /\ chan[<<"join", j, "rpc">>].st = "sent"
    /\ JoinSettle(j, send_join_group(joins[j], chan[<<"join", j, "rpc">>].val))
    /\ chan' = [chan EXCEPT ![<<"join", j, "rpc">>] = ChanNone]
    /\ UNCHANGED <<codecVars, timing, offsets, serviceVars, mwVars, config, metadata_status, loads, timeouts, produces, beats, leaves>>

\* The JoinGroup response res: the leader runs perform_assignment (assigned
\* tells whether it succeeds), a follower holds None; then
\* KafkaClient::sync_group.
JoinGroupResponse(j, res, assigned) ==
    /\ j \in 1..Len(joins)
    /\ joins[j].pc = "jg_sent"
    /\ LET jr == [joins[j] EXCEPT !.generation = generation(GroupId, res),
                                  !.leader_id = res.leader_id,
                                  !.performed = is_leader(res),
                                  !.group_assignment =
                                      IF is_leader(res)
                                      THEN SomeAssignment(perform_assignment(Members))
                                      ELSE NoAssignment] IN
       IF is_leader(res) /\ ~assigned
       THEN /\ JoinSettle(j, JoinErr(jr, "Assignment"))
            /\ UNCHANGED <<metadata_status, chan>>
       ELSE LET r == AwaitThen(<<"join", j, "rpc">>, jr, "sg_wait", send_sync_group) IN
            /\ metadata_status' = r.ms
            /\ chan' = r.ch
            /\ JoinSettle(j, r.rec)
    /\ UNCHANGED <<codecVars, timing, offsets, serviceVars, mwVars, config, loads, timeouts, produces, beats, leaves>>

\* The snapshot awaited by KafkaClient::sync_group is there.
JoinPollSyncGroup(j) ==
    /\ j \in 1..Len(joins)
    /\ joins[j].pc = "sg_wait"
    /\ chan[<<"join", j, "rpc">>].st = "sent"
    /\ JoinSettle(j, send_sync_group(joins[j], chan[<<"join", j, "rpc">>].val))
    /\ chan' = [chan EXCEPT ![<<"join", j, "rpc">>] = ChanNone]
    /\ UNCHANGED <<codecVars, timing, offsets, serviceVars, mwVars, config, metadata_status, loads, timeouts, produces, beats, leaves>>

(***************************************************************************)
(* Inner::synced_group and the heartbeat loop it spawns                    *)
(***************************************************************************)
\* An interval whose first tick is at once: the loop starts with a heartbeat
\* sent.
NewBeatAtOnce(c, g) ==
    [pc |-> "sent", coordinator |-> c, generation |-> g,
     req |-> Req("Heartbeat", c, g.group_id, g.generation_id, g.member_id), last |-> "none"]

NewBeat(c, g) ==
    [pc |-> "idle", coordinator |-> c, generation |-> g, req |-> NoReq, last |-> "none"]

\* Inner::synced_group: the state becomes Stable and the interval is spawned.
synced_group(j) ==
    /\ coord_state' = joined(coord_state, joins[j].coordinator, joins[j].generation)
    /\ beats' = Append(beats, NewBeat(joins[j].coordinator, joins[j].generation))
    /\ joins' = [joins EXCEPT ![j] = JoinOk]

\* The SyncGroup response: the assignment decodes and assign_from_subscribed
\* accepts it (applied), or one of the two fails.
SyncGroupResponse(j, applied) ==
    /\ j \in 1..Len(joins)
    /\ joins[j].pc = "sg_sent"
    /\ IF applied
       THEN synced_group(j)
       ELSE /\ JoinSettle(j, JoinErr(joins[j], "Assignment"))
            /\ UNCHANGED beats
    /\ UNCHANGED <<codecVars, timing, offsets, serviceVars, mwVars, config, metadata_status, chan, loads, timeouts, produces, leaves>>

\* A loop that ended holds nothing but the error that ended it.
BeatDead(e) == [NewBeat(NoBroker, NoGeneration) EXCEPT !.pc = "dead", !.last = e]

\* The loop ended by BrokerNotFound(coordinator).
BeatNotFound(br) == [BeatDead("BrokerNotFound") EXCEPT !.coordinator = br.coordinator]

\* KafkaClient::heartbeat: find_broker, then Inner::heartbeat.  An error ends
\* the for_each of the loop.
send_heartbeat(br, md) ==
    IF find_broker(md, br.coordinator) = NoBroker
    THEN BeatNotFound(br)
    ELSE [br EXCEPT !.pc = "sent",
                    !.req = Req("Heartbeat", br.coordinator, br.generation.group_id,
                                br.generation.generation_id, br.generation.member_id)]

\* The interval of loop k ticks: client.heartbeat(coordinator, generation).
HeartbeatTick(k) ==
    /\ k \in 1..Len(beats)
    /\ beats[k].pc = "idle"
    /\ LET r == AwaitThen(<<"hb", k, "rpc">>, beats[k], "wait", send_heartbeat) IN
       /\ metadata_status' = r.ms
       /\ chan' = r.ch
       /\ beats' = [beats EXCEPT ![k] = r.rec]
    /\ UNCHANGED <<codecVars, timing, offsets, serviceVars, mwVars, config, loads, timeouts, produces, coord_state, joins, leaves>>

\* The snapshot awaited by KafkaClient::heartbeat is there.
HeartbeatPoll(k) ==
    /\ k \in 1..Len(beats)
    /\ beats[k].pc = "wait"
    /\ chan[<<"hb", k, "rpc">>].st = "sent"
    /\ beats' = [beats EXCEPT ![k] = send_heartbeat(beats[k], chan[<<"hb", k, "rpc">>].val)]
    /\ chan' = [chan EXCEPT ![<<"hb", k, "rpc">>] = ChanNone]
    /\ UNCHANGED <<codecVars, timing, offsets, serviceVars, mwVars, config, metadata_status, loads, timeouts, produces, coord_state, joins, leaves>>

\* The Heartbeat response carries no error: the loop waits for the next tick.
HeartbeatOk(k) ==
    /\ k \in 1..Len(beats)
    /\ beats[k].pc = "sent"
    /\ beats' = [beats EXCEPT ![k].pc = "idle", ![k].req = NoReq]
    /\ UNCHANGED <<codecVars, timing, offsets, serviceVars, mwVars, config, metadata_status, chan, loads, timeouts, produces, coord_state, joins, leaves>>

\* The heartbeat fails with e: for_each ends and map_err logs the error.
HeartbeatError(k, e) ==
    /\ k \in 1..Len(beats)
    /\ beats[k].pc = "sent"
    /\ beats' = [beats EXCEPT ![k] = BeatDead(e)]
    /\ UNCHANGED <<codecVars, timing, offsets, serviceVars, mwVars, config, metadata_status, chan, loads, timeouts, produces, coord_state, joins, leaves>>

(***************************************************************************)
(* ConsumerCoordinator::leave_group                                        *)
(***************************************************************************)
\* A completed future holds nothing but its outcome; nsent counts the
\* LeaveGroup requests it sent.
LeaveDone(lv, pc, e) ==
    [pc |-> pc, from |-> lv.from,
     coordinator |-> IF e = "BrokerNotFound" THEN lv.coordinator ELSE NoBroker,
     generation |-> NoGeneration,
     req |-> NoReq, nsent |-> lv.nsent, err |-> e]

\* A test that takes every state but Unjoined for a membership.
was_stable_or_rebalancing(st) == st.tag # "Unjoined"

\* `if let State::Stable { coordinator, generation } = state` in leave_group
was_stable(st) == st.tag = "Stable"

\* ConsumerCoordinator::leave_group, called by the user of the coordinator:
\* State::leave first, then the LeaveGroup call if the state was Stable.
leave_group ==
    /\ Len(leaves) < MaxLeaves
    /\ coord_state' = leave(coord_state)
    /\ LET n == Len(leaves) + 1
           lv == [pc |-> "wait", from |-> coord_state.tag,
                  coordinator |-> coord_state.coordinator,
                  generation |-> coord_state.generation, req |-> NoReq, nsent |-> 0,
                  err |-> "none"] IN
       IF was_stable(coord_state)
       THEN LET r == metadata(metadata_status, chan, <<"leave", n, "rpc">>) IN
            /\ metadata_status' = r.ms
            /\ chan' = r.ch
            /\ leaves' = Append(leaves, lv)
       ELSE /\ leaves' = Append(leaves, LeaveDone(lv, "err", "GroupLoadInProgress"))
            /\ UNCHANGED <<metadata_status, chan>>
    /\ UNCHANGED <<codecVars, timing, offsets, serviceVars, mwVars, config, loads, timeouts, produces, joins, beats>>

\* A leave_group that sends the request to the coordinator without looking
\* it up, and with an empty member id.
send_leave_group_unchecked(lv, md) ==
    [lv EXCEPT !.pc = "sent", !.nsent = @ + 1,
               !.req = Req("LeaveGroup", lv.coordinator, lv.generation.group_id, 0, "")]

\* KafkaClient::leave_group: find_broker, then Inner::leave_group
send_leave_group(lv, md) ==
    IF find_broker(md, lv.coordinator) = NoBroker
    THEN LeaveDone(lv, "err", "BrokerNotFound")
    ELSE [lv EXCEPT !.pc = "sent", !.nsent = @ + 1,
                    !.req = Req("LeaveGroup", lv.coordinator, lv.generation.group_id, 0,
                                lv.generation.member_id)]

\* The leave future is polled with its snapshot ready.
LeavePoll(n) ==
    /\ n \in 1..Len(leaves)
    /\ leaves[n].pc = "wait"
    /\ chan[<<"leave", n, "rpc">>].st = "sent"
    /\ leaves' = [leaves EXCEPT ![n] = send_leave_group(leaves[n], chan[<<"leave", n, "rpc">>].val)]
    /\ chan' = [chan EXCEPT ![<<"leave", n, "rpc">>] = ChanNone]
    /\ UNCHANGED <<codecVars, timing, offsets, serviceVars, mwVars, config, metadata_status, loads, timeouts, produces, coord_state, joins, beats>>

\* The LeaveGroup response arrives (ok), or the call fails.
LeaveResponse(n, ok) ==
    /\ n \in 1..Len(leaves)
    /\ leaves[n].pc = "sent"
    /\ leaves' = [leaves EXCEPT ![n] = IF ok THEN LeaveDone(leaves[n], "ok", "none")
                                            ELSE LeaveDone(leaves[n], "err", "KafkaError")]
    /\ UNCHANGED <<codecVars, timing, offsets, serviceVars, mwVars, config, metadata_status, chan, loads, timeouts, produces, coord_state, joins, beats>>

(***************************************************************************)
(* Bytes, the big-endian integers and the results of the nom parsers       *)
(* (protocol/mod.rs, protocol/message.rs).  A byte is a number 0..255, a   *)
(* buffer a sequence of bytes.                                             *)
(***************************************************************************)
\* put_i8, put_i16, put_i32, put_i64: n in w bytes, big-endian, two's
\* complement
RECURSIVE put_int(_, _)
put_int(n, w) == IF w = 0 THEN <<>> ELSE put_int(n \div 256, w - 1) \o <<n % 256>>

RECURSIVE Horner(_, _)
Horner(bs, acc) == IF bs = <<>> THEN acc ELSE Horner(Tail(bs), acc * 256 + Head(bs))
\* be_i8, be_i16, be_i32, be_i64: the signed number the bytes bs hold
get_int(bs) ==
    IF bs[1] >= 128
    THEN -(Horner([k \in 1..Len(bs) |-> 255 - bs[k]], 0)) - 1
    ELSE Horner(bs, 0)

\* IResult::Done(rest, value), IResult::Incomplete, IResult::Error(kind); a
\* parser that panics
Done(rest, val) == [tag |-> "Done", rest |-> rest, val |-> val, kind |-> "none"]
Incomplete == [tag |-> "Incomplete", rest |-> <<>>, val |-> <<>>, kind |-> "none"]
Error(kind) == [tag |-> "Error", rest |-> <<>>, val |-> <<>>, kind |-> kind]
Panic == [tag |-> "Panic", rest |-> <<>>, val |-> <<>>, kind |-> "none"]

\* do_parse!(r >> K): the step K runs on what r has parsed, and a parser
\* that does not end in Done ends the whole sequence
AndThen(r, K(_)) == IF r.tag # "Done" THEN r ELSE K(r)

\* be_iN of nom on the input i, N = 8 * w
be(i, w) ==
    IF Len(i) < w THEN Incomplete
    ELSE Done(SubSeq(i, w + 1, Len(i)), get_int(SubSeq(i, 1, w)))

\* take!(n); a negative n cast to usize asks for more than any input holds
take(i, n) ==
    IF n < 0 \/ Len(i) < n THEN Incomplete
    ELSE Done(SubSeq(i, n + 1, Len(i)), SubSeq(i, 1, n))

\* Option<bytes>, Option<str>: None and Some(b)
NoBytes == [some |-> FALSE, bytes |-> <<>>]
SomeBytes(b) == [some |-> TRUE, bytes |-> b]

\* a continuation byte of UTF-8
Cont(b) == b >= 128 /\ b <= 191
\* str::from_utf8 succeeds on bs
RECURSIVE from_utf8(_)
from_utf8(bs) ==
    IF bs = <<>> THEN TRUE
    ELSE LET b == bs[1]
             n == Len(bs) IN
         IF b < 128 THEN from_utf8(SubSeq(bs, 2, n))
         ELSE IF b >= 194 /\ b <= 223
         THEN n >= 2 /\ Cont(bs[2]) /\ from_utf8(SubSeq(bs, 3, n))
         ELSE IF b >= 224 /\ b <= 239
         THEN /\ n >= 3 /\ Cont(bs[2]) /\ Cont(bs[3])
              /\ (b = 224 => bs[2] >= 160)
              /\ (b = 237 => bs[2] <= 159)
              /\ from_utf8(SubSeq(bs, 4, n))
         ELSE IF b >= 240 /\ b <= 244
         THEN /\ n >= 4 /\ Cont(bs[2]) /\ Cont(bs[3]) /\ Cont(bs[4])
              /\ (b = 240 => bs[2] >= 144)
              /\ (b = 244 => bs[2] <= 143)
              /\ from_utf8(SubSeq(bs, 5, n))
         ELSE FALSE

\* parse_str: i16 length, the string when the length is positive
parse_str(i) ==
    LET len == be(i, 2) IN
    IF len.tag # "Done" THEN len
    ELSE IF len.val > 0
    THEN LET s == take(len.rest, len.val) IN
         IF s.tag # "Done" THEN s
         ELSE IF from_utf8(s.val) THEN Done(s.rest, SomeBytes(s.val))
         ELSE Error("MapRes")
    ELSE Done(len.rest, NoBytes)

\* parse_string: i16 length, which cond_reduce! wants positive
parse_string(i) ==
    LET len == be(i, 2) IN
    IF len.tag # "Done" THEN len
    ELSE IF len.val > 0
    THEN LET s == take(len.rest, len.val) IN
         IF s.tag # "Done" THEN s
         ELSE IF from_utf8(s.val) THEN Done(s.rest, s.val)
         ELSE Error("MapRes")
    ELSE Error("CondReduce")

\* parse_bytes reading a length of 0 as zero bytes of data.
parse_bytes_nonnegative(i) ==
    LET len == be(i, 4) IN
    IF len.tag # "Done" THEN len
    ELSE IF len.val >= 0
    THEN LET s == take(len.rest, len.val) IN
         IF s.tag # "Done" THEN s ELSE Done(s.rest, SomeBytes(s.val))
    ELSE Done(len.rest, NoBytes)

\* parse_bytes: i32 length, the bytes when the length is positive
parse_bytes(i) ==
    LET len == be(i, 4) IN
    IF len.tag # "Done" THEN len
    ELSE IF len.val > 0
    THEN LET s == take(len.rest, len.val) IN
         IF s.tag # "Done" THEN s ELSE Done(s.rest, SomeBytes(s.val))
    ELSE Done(len.rest, NoBytes)

\* WriteExt::put_bytes: i32 length and the bytes, length -1 for None
put_bytes(opt) ==
    IF opt.some THEN put_int(Len(opt.bytes), 4) \o opt.bytes ELSE put_int(-1, 4)

\* WriteExt::put_str: i16 length and the bytes, length -1 for None
put_str(opt) ==
    IF opt.some THEN put_int(Len(opt.bytes), 2) \o opt.bytes ELSE put_int(-1, 2)

(***************************************************************************)
(* crc32::checksum_ieee: CRC-32 with the reflected IEEE polynomial         *)
(* 0xEDB88320, initial value and final xor 0xFFFFFFFF.  A 32-bit word is   *)
(* its four bytes, most significant first.                                 *)
(***************************************************************************)
RECURSIVE Xor8(_, _)
Xor8(a, b) ==
    IF a = 0 THEN b
    ELSE IF b = 0 THEN a
    ELSE ((a + b) % 2) + 2 * Xor8(a \div 2, b \div 2)

Xor32(x, y) == <<Xor8(x[1], y[1]), Xor8(x[2], y[2]), Xor8(x[3], y[3]), Xor8(x[4], y[4])>>
\* x >> 4
Shr4(x) ==
    <<x[1] \div 16, (x[2] \div 16) + 16 * (x[1] % 16), (x[3] \div 16) + 16 * (x[2] % 16),
      (x[4] \div 16) + 16 * (x[3] % 16)>>

\* the table of the algorithm that takes four bits at a time: entry n + 1 is
\* n after four steps of "shift right, xor 0xEDB88320 when a one fell out"
CrcTable ==
    <<<<0, 0, 0, 0>>, <<29, 183, 16, 100>>, <<59, 110, 32, 200>>, <<38, 217, 48, 172>>,
      <<118, 220, 65, 144>>, <<107, 107, 81, 244>>, <<77, 178, 97, 88>>, <<80, 5, 113, 60>>,
      <<237, 184, 131, 32>>, <<240, 15, 147, 68>>, <<214, 214, 163, 232>>,
      <<203, 97, 179, 140>>, <<155, 100, 194, 176>>, <<134, 211, 210, 212>>,
      <<160, 10, 226, 120>>, <<189, 189, 242, 28>>>>

\* the register after four more bits
CrcNibble(crc, nibble) == Xor32(Shr4(crc), CrcTable[Xor8(crc[4] % 16, nibble) + 1])

\* the register after the bytes bs[k..], low half of each byte first
RECURSIVE CrcUpdate(_, _, _)
CrcUpdate(crc, bs, k) ==
    IF crc = <<>> \/ k > Len(bs) THEN crc
    ELSE CrcUpdate(CrcNibble(CrcNibble(crc, bs[k] % 16), bs[k] \div 16), bs, k + 1)

checksum_ieee(bs) == Xor32(CrcUpdate(<<255, 255, 255, 255>>, bs, 1), <<255, 255, 255, 255>>)

(***************************************************************************)
(* Message sets (protocol/message.rs)                                      *)
(***************************************************************************)
\* Compression as i8 (spec 4.1: 0 None, 1 Gzip, 2 Snappy, 3 LZ4)
CompressionNone == 0
Snappy == 2
TIMESTAMP_TYPE_MASK == 8
COMPRESSION_CODEC_MASK == 7

\* Option<MessageTimestamp>
NoTimestamp == [some |-> FALSE, kind |-> "none", value |-> 0]
CreateTime(v) == [some |-> TRUE, kind |-> "CreateTime", value |-> v]
LogAppendTime(v) == [some |-> TRUE, kind |-> "LogAppendTime", value |-> v]

\* struct Message
Message(offset, timestamp, compression, key, value) ==
    [offset |-> offset, timestamp |-> timestamp, compression |-> compression,
     key |-> key, value |-> value]

\* the attributes byte encode_message writes
attrs_of(message) ==
    (message.compression % (COMPRESSION_CODEC_MASK + 1)) +
    (IF message.timestamp.kind = "LogAppendTime" THEN TIMESTAMP_TYPE_MASK ELSE 0)

\* the bytes encode_message writes after the crc field; now is the value of
\* MessageTimestamp::default()
message_data(api_version, message, now) ==
    <<api_version % 256, attrs_of(message)>> \o
    (IF api_version > 0
     THEN put_int(IF message.timestamp.some THEN message.timestamp.value ELSE now, 8)
     ELSE <<>>) \o
    put_bytes(message.key) \o put_bytes(message.value)

\* MessageSetEncoder::encode_message
encode_message(api_version, message, offset, now) ==
    LET data == message_data(api_version, message, now) IN
    put_int(offset, 8) \o put_int(Len(data) + 4, 4) \o checksum_ieee(data) \o data

\* the closure of MessageSetEncoder::encode applied to the messages from the
\* k-th on; offset is the counter the closure owns
RECURSIVE encode_from(_, _, _, _, _)
encode_from(api_version, messages, k, offset, now) ==
    IF k > Len(messages) THEN <<>>
    ELSE IF messages[k].compression = CompressionNone
    THEN encode_message(api_version, messages[k], messages[k].offset, now) \o
         encode_from(api_version, messages, k + 1, offset, now)
    ELSE encode_message(api_version, messages[k], offset, now) \o
         encode_from(api_version, messages, k + 1, offset + 1, now)

\* MessageSetEncoder::encode: put_array writes the i32 count, then the items
encode(api_version, messages, now) ==
    put_int(Len(messages), 4) \o encode_from(api_version, messages, 1, 0, now)

\* the Message parse_message builds from the fields it has read
parsed_message(offset, attrs, timestamp, key, value) ==
    Message(offset,
            IF ~timestamp.some THEN NoTimestamp
            ELSE IF (attrs \div TIMESTAMP_TYPE_MASK) % 2 = 0 THEN CreateTime(timestamp.n)
            ELSE LogAppendTime(timestamp.n),
            attrs % (COMPRESSION_CODEC_MASK + 1), key, value)

\* parse_message, from the magic byte on: i is the input after the crc field
parse_message_data(i, api_version, offset) ==
    LET magic == be(i, 1) IN
    IF magic.tag # "Done" THEN magic
    ELSE IF magic.val # api_version THEN Error("Verify")
    ELSE LET attrs == take(magic.rest, 1) IN
    IF attrs.tag # "Done" THEN attrs
    ELSE LET timestamp == IF api_version > 0 THEN be(attrs.rest, 8)
                          ELSE Done(attrs.rest, 0) IN
    IF timestamp.tag # "Done" THEN timestamp
    ELSE LET key == parse_bytes(timestamp.rest) IN
    IF key.tag # "Done" THEN key
    ELSE LET value == parse_bytes(key.rest) IN
    IF value.tag # "Done" THEN value
    ELSE Done(value.rest,
              parsed_message(offset, attrs.val[1],
                             IF api_version > 0 THEN Some(timestamp.val) ELSE None,
                             key.val, value.val))

\* parse_message: offset, size, a peek at the size bytes, the crc verified
\* over the peeked bytes after their first four, then the fields
parse_message(i, api_version) ==
    LET offset == be(i, 8) IN
    IF offset.tag # "Done" THEN offset
    ELSE LET size == be(offset.rest, 4) IN
    IF size.tag # "Done" THEN size
    ELSE LET data == take(size.rest, size.val) IN
    IF data.tag # "Done" THEN data
    ELSE LET checksum == take(size.rest, 4) IN
    IF checksum.tag # "Done" THEN checksum
    ELSE IF Len(data.val) < 4 THEN Panic
    ELSE IF checksum_ieee(SubSeq(data.val, 5, Len(data.val))) # checksum.val
    THEN Error("Verify")
    ELSE parse_message_data(checksum.rest, api_version, offset.val)

\* count!: n times parse_message
RECURSIVE parse_messages(_, _, _, _)
parse_messages(i, n, api_version, acc) ==
    IF n = 0 THEN Done(i, acc)
    ELSE AndThen(parse_message(i, api_version),
                 LAMBDA m : parse_messages(m.rest, n - 1, api_version, Append(acc, m.val)))

\* parse_message_set: length_count!(be_i32, parse_message)
parse_message_set(i, api_version) ==
    LET n == be(i, 4) IN
    IF n.tag # "Done" THEN n
    ELSE IF n.val < 0 THEN Panic
    ELSE parse_messages(n.rest, n.val, api_version, <<>>)

(***************************************************************************)
(* Fetch responses (protocol/fetch.rs)                                     *)
(***************************************************************************)
\* parse_response_header: the correlation id
parse_response_header(i) == be(i, 4)

\* complete!: a parser that wants more than the bytes it was given fails
complete(r) == IF r.tag = "Incomplete" THEN Error("Complete") ELSE r

\* length_value!(be_i32, parse_message_set): the parser runs on the bytes
\* the length announces and has to complete on them
parse_sized_message_set(i, api_version) ==
    LET len == be(i, 4) IN
    IF len.tag # "Done" THEN len
    ELSE LET data == take(len.rest, len.val) IN
    IF data.tag # "Done" THEN data
    ELSE AndThen(complete(parse_message_set(data.val, api_version)),
                 LAMBDA set : Done(data.rest, set.val))

\* parse_fetch_partition_data
parse_fetch_partition_data(i, api_version) ==
    LET partition == be(i, 4) IN
    IF partition.tag # "Done" THEN partition
    ELSE LET error_code == be(partition.rest, 2) IN
    IF error_code.tag # "Done" THEN error_code
    ELSE LET offset == be(error_code.rest, 8) IN
    IF offset.tag # "Done" THEN offset
    ELSE AndThen(parse_sized_message_set(offset.rest, api_version),
                 LAMBDA set :
                     Done(set.rest,
                          [partition |-> partition.val, error_code |-> error_code.val,
                           highwater_mark_offset |-> offset.val, message_set |-> set.val]))

RECURSIVE parse_fetch_partitions(_, _, _, _)
parse_fetch_partitions(i, n, api_version, acc) ==
    IF n = 0 THEN Done(i, acc)
    ELSE AndThen(parse_fetch_partition_data(i, api_version),
                 LAMBDA p : parse_fetch_partitions(p.rest, n - 1, api_version,
                                                   Append(acc, p.val)))

\* parse_fetch_topic_data
parse_fetch_topic_data(i, api_version) ==
    LET topic_name == parse_string(i) IN
    IF topic_name.tag # "Done" THEN topic_name
    ELSE LET n == be(topic_name.rest, 4) IN
    IF n.tag # "Done" THEN n
    ELSE IF n.val < 0 THEN Panic
    ELSE AndThen(parse_fetch_partitions(n.rest, n.val, api_version, <<>>),
                 LAMBDA partitions :
                     Done(partitions.rest,
                          [topic_name |-> topic_name.val, partitions |-> partitions.val]))

RECURSIVE parse_fetch_topics(_, _, _, _)
parse_fetch_topics(i, n, api_version, acc) ==
    IF n = 0 THEN Done(i, acc)
    ELSE AndThen(parse_fetch_topic_data(i, api_version),
                 LAMBDA t : parse_fetch_topics(t.rest, n - 1, api_version, Append(acc, t.val)))

\* parse_fetch_response
parse_fetch_response(i, api_version) ==
    LET header == parse_response_header(i) IN
    IF header.tag # "Done" THEN header
    ELSE LET throttle_time == IF api_version > 0 THEN be(header.rest, 4)
                              ELSE Done(header.rest, 0) IN
    IF throttle_time.tag # "Done" THEN throttle_time
    ELSE LET n == be(throttle_time.rest, 4) IN
    IF n.tag # "Done" THEN n
    ELSE IF n.val < 0 THEN Panic
    ELSE AndThen(parse_fetch_topics(n.rest, n.val, api_version, <<>>),
                 LAMBDA topics :
                     Done(topics.rest,
                          [header |-> header.val,
                           throttle_time |-> IF api_version > 0 THEN Some(throttle_time.val)
                                             ELSE None,
                           topics |-> topics.val]))

\* The bytes of a Fetch response of version api_version with one topic and
\* one partition, laid out as parse_fetch_response reads them; its messages
\* are written by MessageSetEncoder with the format version res.magic.
fetch_response_bytes(api_version, res, messages, now) ==
    LET set == encode(res.magic, messages, now) IN
    put_int(res.correlation_id, 4) \o
    (IF api_version > 0 THEN put_int(res.throttle_time, 4) ELSE <<>>) \o
    put_int(1, 4) \o put_str(SomeBytes(res.topic_name)) \o
    put_int(1, 4) \o put_int(res.partition, 4) \o put_int(res.error_code, 2) \o
    put_int(res.highwater_mark_offset, 8) \o put_int(Len(set), 4) \o set

(***************************************************************************)
(* Request headers (protocol/header.rs, protocol/api_versions.rs)          *)
(***************************************************************************)
\* struct RequestHeader
RequestHeader(api_key, version, correlation, client_id) ==
    [api_key |-> api_key, api_version |-> version, correlation_id |-> correlation,
     client_id |-> client_id]

\* A header written with the correlation id before the api key.
encode_header_id_first(h) ==
    put_int(h.correlation_id, 4) \o put_int(h.api_key, 2) \o put_int(h.api_version, 2) \o
    put_str(h.client_id)

\* RequestHeader::encode, which ApiVersionsRequest::encode calls
encode_header(h) ==
    put_int(h.api_key, 2) \o put_int(h.api_version, 2) \o put_int(h.correlation_id, 4) \o
    put_str(h.client_id)

\* RequestHeader::size, which ApiVersionsRequest::size calls
header_size(h, version) ==
    2 + 2 + 4 + 2 + (IF h.client_id.some THEN Len(h.client_id.bytes) ELSE 0)

(***************************************************************************)
(* The codec at work: a value is encoded into buf, the bytes may be        *)
(* damaged on the wire, and a parser reads them.                           *)
(***************************************************************************)
\* the value MessageTimestamp::default() takes from the clock
Now == 9

NoHeader == RequestHeader(0, 0, 0, NoBytes)
NoFetch ==
    [correlation_id |-> 0, throttle_time |-> 0, topic_name |-> <<>>, partition |-> 0,
     error_code |-> 0, highwater_mark_offset |-> 0, magic |-> 0]
NoDamage == [kind |-> "none", message |-> 0]
NotParsed == [by |-> "none", res |-> Incomplete]

\* no codec is at work
CodecIdle ==
    /\ codec_version = 0
    /\ message_set = <<>>
    /\ request = NoHeader
    /\ fetch = NoFetch
    /\ buf = <<>>
    /\ damage = NoDamage
    /\ parsed = NotParsed

\* the messages the encoder is given
Offsets == {0, 5}
Timestamps == {NoTimestamp, CreateTime(3), LogAppendTime(3)}
Compressions == {CompressionNone, Snappy}
Keys == {NoBytes, SomeBytes(<<>>), SomeBytes(<<107>>)}
Values == {NoBytes, SomeBytes(<<118>>)}
Messages ==
    {Message(o, t, c, k, v) : o \in Offsets, t \in Timestamps, c \in Compressions,
                              k \in Keys, v \in Values}
MessageSets == UNION {[1..n -> Messages] : n \in 0..MaxMessages}

\* messages as a broker stores them in the format version v: no codec, a
\* timestamp exactly from version 1 on, a key that is null or not empty
WireMessages(v) ==
    {Message(o, IF v > 0 THEN CreateTime(3) ELSE NoTimestamp, CompressionNone, k,
             SomeBytes(<<118>>)) : o \in Offsets, k \in {NoBytes, SomeBytes(<<107>>)}}
WireSets(v) == [1..MaxMessages -> WireMessages(v)]

\* MessageSetEncoder::new(codec_version).encode(message_set, buf)
EncodeMessageSet ==
    /\ buf = <<>>
    /\ parsed.by = "none"
    /\ buf' = encode(codec_version, message_set, Now)
    /\ UNCHANGED <<codec_version, message_set, request, fetch, damage, parsed, timing, offsets,
                   serviceVars, mwVars, clientVars, coordVars>>

\* the number of bytes of buf up to the end of its k-th message: the count,
\* then for each message its offset, its size and size bytes
RECURSIVE message_end(_)
message_end(k) ==
    IF k = 0 THEN 4
    ELSE LET start == message_end(k - 1) IN
         start + 12 + get_int(SubSeq(buf, start + 9, start + 12))

\* One bit of message k changes on the wire, in its crc field or in the
\* bytes after it (pos counts the bytes of buf).
FlipBit(k, pos, bit) ==
    /\ buf # <<>>
    /\ damage.kind = "none"
    /\ parsed.by = "none"
    /\ k \in 1..Len(message_set)
    /\ pos \in (message_end(k - 1) + 13)..message_end(k)
    /\ bit \in 0..7
    /\ buf' = [buf EXCEPT ![pos] = Xor8(@, 2 ^ bit)]
    /\ damage' = [kind |-> "flip", message |-> k]
    /\ UNCHANGED <<codec_version, message_set, request, fetch, parsed, timing, offsets,
                   serviceVars, mwVars, clientVars, coordVars>>

\* The bytes end after n bytes, in the middle of message k.
Truncate(k, n) ==
    /\ buf # <<>>
    /\ damage.kind = "none"
    /\ parsed.by = "none"
    /\ k \in 1..Len(message_set)
    /\ n \in (message_end(k - 1) + 1)..(message_end(k) - 1)
    /\ buf' = SubSeq(buf, 1, n)
    /\ damage' = [kind |-> "truncate", message |-> k]
    /\ UNCHANGED <<codec_version, message_set, request, fetch, parsed, timing, offsets,
                   serviceVars, mwVars, clientVars, coordVars>>

\* parse_message_set(buf, codec_version)
ParseMessageSet ==
    /\ buf # <<>>
    /\ parsed.by = "none"
    /\ parsed' = [by |-> "parse_message_set", res |-> parse_message_set(buf, codec_version)]
    /\ UNCHANGED <<codec_version, message_set, request, fetch, buf, damage, timing, offsets,
                   serviceVars, mwVars, clientVars, coordVars>>

\* A broker answers a Fetch request of version codec_version.
EncodeFetchResponse ==
    /\ buf = <<>>
    /\ parsed.by = "none"
    /\ buf' = fetch_response_bytes(codec_version, fetch, message_set, Now)
    /\ UNCHANGED <<codec_version, message_set, request, fetch, damage, parsed, timing, offsets,
                   serviceVars, mwVars, clientVars, coordVars>>

\* parse_fetch_response(buf, codec_version)
ParseFetchResponse ==
    /\ buf # <<>>
    /\ parsed.by = "none"
    /\ parsed' = [by |-> "parse_fetch_response", res |-> parse_fetch_response(buf, codec_version)]
    /\ UNCHANGED <<codec_version, message_set, request, fetch, buf, damage, timing, offsets,
                   serviceVars, mwVars, clientVars, coordVars>>

\* ApiVersionsRequest::encode
EncodeHeader ==
    /\ buf = <<>>
    /\ buf' = encode_header(request)
    /\ UNCHANGED <<codec_version, message_set, request, fetch, damage, parsed, timing, offsets,
                   serviceVars, mwVars, clientVars, coordVars>>

\* parse_str(buf), parse_string(buf), parse_bytes(buf)
ParseStr ==
    /\ parsed.by = "none"
    /\ parsed' = [by |-> "parse_str", res |-> parse_str(buf)]
    /\ UNCHANGED <<codec_version, message_set, request, fetch, buf, damage, timing, offsets,
                   serviceVars, mwVars, clientVars, coordVars>>

ParseString ==
    /\ parsed.by = "none"
    /\ parsed' = [by |-> "parse_string", res |-> parse_string(buf)]
    /\ UNCHANGED <<codec_version, message_set, request, fetch, buf, damage, timing, offsets,
                   serviceVars, mwVars, clientVars, coordVars>>

ParseBytes ==
    /\ parsed.by = "none"
    /\ parsed' = [by |-> "parse_bytes", res |-> parse_bytes(buf)]
    /\ UNCHANGED <<codec_version, message_set, request, fetch, buf, damage, timing, offsets,
                   serviceVars, mwVars, clientVars, coordVars>>

(***************************************************************************)
(* ConsumerCoordinator::new (consumer/coordinator.rs)                      *)
(***************************************************************************)
\* the durations it is given, kept as they are
ConsumerCoordinator_new(session_timeout, rebalance_timeout, heartbeat_interval) ==
    [session_timeout |-> session_timeout, rebalance_timeout |-> rebalance_timeout,
     heartbeat_interval |-> heartbeat_interval]

\* the durations the other models run with, in seconds
DefaultTiming == ConsumerCoordinator_new(10, 10, 3)
\* durations a caller of ConsumerCoordinator::new can pass
Durations == {3, 6, 10}

(***************************************************************************)
(* KafkaClient::from_config: State::default(), then refresh_metadata().    *)
(***************************************************************************)
ClientInit ==
    /\ config \in [metadata_max_age : {0, 1}, api_version_request : BOOLEAN]
    /\ metadata_status = refresh_metadata(Loading(<<>>))
    /\ chan = [w \in WaiterIds |-> ChanNone]
    /\ loads = <<NewLoad>>
    /\ timeouts = IF config.metadata_max_age > 0 THEN 1 ELSE 0
    /\ produces = [i \in ProduceIds |-> NoProduce]
    /\ offsets = NoOffsets
    /\ coord_state = Unjoined
    /\ joins = <<>>
    /\ beats = <<>>
    /\ leaves = <<>>

\* State::default() and InFlightMiddleware::new of client.rs
ServiceInit ==
    /\ correlation_id = 0
    /\ issued = <<>>
    /\ panicked = FALSE
    /\ in_flight = [b \in Brokers |-> 0]
    /\ requests = EmptyMap
    /\ picked = NoPick

\* InFlightMiddleware::new of middleware.rs
MiddlewareInit ==
    /\ mw_requests = EmptyMap
    /\ mw_calls = [a \in Addrs |-> NoCalls]

\* The models of the metadata refresh and of the coordinator do not number
\* their requests; they run in the release profile.
Init ==
    /\ ClientInit
    /\ overflow_checks = FALSE
    /\ ServiceInit
    /\ MiddlewareInit
    /\ CodecIdle
    /\ timing = DefaultTiming

\* The coordinator is checked with the configuration of ClientConfig::default
\* (metadata_max_age > 0, no api_version_request).
InitCoord ==
    /\ Init
    /\ config = [metadata_max_age |-> 1, api_version_request |-> FALSE]

NextCoord ==
    \/ TimeoutFired
    \/ \E l \in 1..MaxLoads, h \in HostSet, topo \in Topologies : PollMetadataReady(l, h, topo)
    \/ join_group
    \/ \E j \in 1..MaxJoins : JoinPollGroupCoordinator(j)
    \/ \E j \in 1..MaxJoins, c \in Brokers : GroupCoordinatorResponse(j, c)
    \/ \E j \in 1..MaxJoins : JoinResponseError(j)
    \/ \E j \in 1..MaxJoins : JoinPollJoinGroup(j)
    \/ \E j \in 1..MaxJoins, res \in JoinGroupResponses, assigned \in BOOLEAN :
            JoinGroupResponse(j, res, assigned)
    \/ \E j \in 1..MaxJoins : JoinPollSyncGroup(j)
    \/ \E j \in 1..MaxJoins, applied \in BOOLEAN : SyncGroupResponse(j, applied)
    \/ \E k \in 1..MaxJoins : HeartbeatTick(k)
    \/ \E k \in 1..MaxJoins : HeartbeatPoll(k)
    \/ \E k \in 1..MaxJoins : HeartbeatOk(k)
    \/ \E k \in 1..MaxJoins, e \in HeartbeatErrors : HeartbeatError(k, e)
    \/ leave_group
    \/ \E n \in 1..MaxLeaves : LeavePoll(n)
    \/ \E n \in 1..MaxLeaves, ok \in BOOLEAN : LeaveResponse(n, ok)

SpecCoord == InitCoord /\ [][NextCoord]_vars

\* The calls of Inner.service, in either build profile.
InitService ==
    /\ ClientInit
    /\ config = [metadata_max_age |-> 1, api_version_request |-> FALSE]
    /\ overflow_checks \in BOOLEAN
    /\ ServiceInit
    /\ MiddlewareInit
    /\ CodecIdle
    /\ timing = DefaultTiming

NextService ==
    \/ \E b \in Brokers : service_call(b)
    \/ \E b \in Brokers : service_response(b)
    \/ \E topo \in Topologies, unresolved \in SUBSET Brokers :
            \E order \in Orders(topo.brokers) : select_least_loaded(topo, order, unresolved)

SpecService == InitService /\ [][NextService]_vars

\* The InFlightMiddleware of middleware.rs on its own.
NextMiddleware ==
    \/ \E a \in Addrs : InFlightMiddleware_call(a)
    \/ \E a \in Addrs, outcome \in {"response", "error", "timeout"} : upstream_completes(a, outcome)
    \/ \E a \in Addrs : future_dropped(a)

SpecMiddleware == InitCoord /\ [][NextMiddleware]_vars

\* The metadata refresh, with calls of produce_records that are answered
\* without an error.
Next ==
    \/ load_metadata
    \/ TimeoutFired
    \/ \E l \in 1..MaxLoads, h \in HostSet, topo \in Topologies : PollMetadataReady(l, h, topo)
    \/ \E l \in 1..MaxLoads, h \in HostSet : PollMetadataFailed(l, h)
    \/ \E l \in 1..MaxLoads, b \in Brokers : PollApiVersionsReady(l, b)
    \/ \E l \in 1..MaxLoads, b \in Brokers : PollApiVersionsFailed(l, b)
    \/ \E i \in 1..MaxProduce : produce_records(i)
    \/ \E i \in 1..MaxProduce : ProducePoll(i)
    \/ \E i \in 1..MaxProduce : ProduceResponse(i, ProduceOk)

Spec == Init /\ [][Next]_vars

\* The same client on a reactor that polls every spawned task that can make
\* progress, with a network that answers or fails every request sent.  The
\* calls of the user (load_metadata, produce_records) are under no obligation.
Fairness ==
    /\ WF_vars(TimeoutFired)
    /\ \A l \in 1..MaxLoads :
          /\ WF_vars(\E h \in HostSet :
                        \/ \E topo \in Topologies : PollMetadataReady(l, h, topo)
                        \/ PollMetadataFailed(l, h))
          /\ WF_vars(\E b \in Brokers : PollApiVersionsReady(l, b) \/ PollApiVersionsFailed(l, b))
    /\ \A i \in 1..MaxProduce :
          /\ WF_vars(ProducePoll(i))
          /\ WF_vars(ProduceResponse(i, ProduceOk))

SpecLive == Init /\ [][Next]_vars /\ Fairness

\* The same client, its Produce requests answered in every way.
NextRpc ==
    \/ load_metadata
    \/ TimeoutFired
    \/ \E l \in 1..MaxLoads, h \in HostSet, topo \in Topologies : PollMetadataReady(l, h, topo)
    \/ \E l \in 1..MaxLoads, h \in HostSet : PollMetadataFailed(l, h)
    \/ \E l \in 1..MaxLoads, b \in Brokers : PollApiVersionsReady(l, b)
    \/ \E l \in 1..MaxLoads, b \in Brokers : PollApiVersionsFailed(l, b)
    \/ \E i \in 1..MaxProduce : produce_records(i)
    \/ \E i \in 1..MaxProduce : ProducePoll(i)
    \/ \E i \in 1..MaxProduce, out \in ProduceOutcomes : ProduceResponse(i, out)

SpecRpc == Init /\ [][NextRpc]_vars

\* One call of fetch_offsets, for every choice of partitions and of leaders.
NextOffsets ==
    \/ \E leaders \in PartitionLeaders, partitions \in SUBSET TopicPartitions :
            fetch_offsets(leaders, partitions)
    \/ \E b \in Brokers, answers \in ListOffsetsAnswers : ListOffsetsResponse(b, answers)
    \/ \E b \in Brokers : ListOffsetsFailed(b)

SpecOffsets == InitCoord /\ [][NextOffsets]_vars

\* The model of the client and of the coordinator at rest: what the models
\* of the codec start from.
ClientIdle ==
    /\ ClientInit
    /\ config = [metadata_max_age |-> 1, api_version_request |-> FALSE]
    /\ overflow_checks = FALSE
    /\ ServiceInit
    /\ MiddlewareInit
    /\ timing = DefaultTiming

\* Message sets encoded and parsed with the same format version.
InitCodec ==
    /\ ClientIdle
    /\ codec_version \in {0, 1}
    /\ message_set \in MessageSets
    /\ request = NoHeader
    /\ fetch = NoFetch
    /\ buf = <<>>
    /\ damage = NoDamage
    /\ parsed = NotParsed

NextCodec ==
    \/ EncodeMessageSet
    \/ ParseMessageSet

SpecCodec == InitCodec /\ [][NextCodec]_vars

\* Stored message sets, damaged between the encoder and the parser.
InitWire ==
    /\ ClientIdle
    /\ codec_version \in {0, 1}
    /\ message_set \in WireSets(codec_version)
    /\ request = NoHeader
    /\ fetch = NoFetch
    /\ buf = <<>>
    /\ damage = NoDamage
    /\ parsed = NotParsed

NextWire ==
    \/ EncodeMessageSet
    \/ \E k \in 1..MaxMessages, pos \in 1..Len(buf), bit \in 0..7 : FlipBit(k, pos, bit)
    \/ \E k \in 1..MaxMessages, n \in 1..Len(buf) : Truncate(k, n)
    \/ ParseMessageSet

SpecWire == InitWire /\ [][NextWire]_vars

\* Fetch responses of the versions 0 to 3 with messages of the formats 0, 1.
InitFetch ==
    /\ ClientIdle
    /\ codec_version \in 0..3
    /\ fetch \in [correlation_id : {123}, throttle_time : {0, 100}, topic_name : {<<116>>},
                  partition : {0}, error_code : {0}, highwater_mark_offset : {7},
                  magic : {0, 1}]
    /\ message_set \in WireSets(fetch.magic)
    /\ request = NoHeader
    /\ buf = <<>>
    /\ damage = NoDamage
    /\ parsed = NotParsed

NextFetch ==
    \/ EncodeFetchResponse
    \/ ParseFetchResponse

SpecFetch == InitFetch /\ [][NextFetch]_vars

\* Request headers.
ClientIds == {NoBytes, SomeBytes(<<>>), SomeBytes(<<99>>),
              SomeBytes(<<99, 108, 105, 101, 110, 116>>)}
InitHeader ==
    /\ ClientIdle
    /\ request \in {RequestHeader(k, v, c, id) :
                     k \in {1, 3, 18}, v \in {0, 1}, c \in {-1, 0, 123}, id \in ClientIds}
    /\ codec_version = request.api_version
    /\ message_set = <<>>
    /\ fetch = NoFetch
    /\ buf = <<>>
    /\ damage = NoDamage
    /\ parsed = NotParsed

NextHeader == EncodeHeader

SpecHeader == InitHeader /\ [][NextHeader]_vars

\* The length-prefixed primitives on every short input.
PrimitiveBytes == {0, 1, 116, 255}
InitPrimitives ==
    /\ ClientIdle
    /\ codec_version = 0
    /\ message_set = <<>>
    /\ request = NoHeader
    /\ fetch = NoFetch
    /\ buf \in UNION {[1..n -> PrimitiveBytes] : n \in 0..MaxBuf}
    /\ damage = NoDamage
    /\ parsed = NotParsed

NextPrimitives ==
    \/ ParseStr
    \/ ParseString
    \/ ParseBytes

SpecPrimitives == InitPrimitives /\ [][NextPrimitives]_vars

\* A coordinator built with any durations joins a group and sends
\* heartbeats.
InitTiming ==
    /\ ClientInit
    /\ config = [metadata_max_age |-> 1, api_version_request |-> FALSE]
    /\ overflow_checks = FALSE
    /\ ServiceInit
    /\ MiddlewareInit
    /\ CodecIdle
    /\ timing \in {ConsumerCoordinator_new(s, r, h) : s \in Durations, r \in Durations,
                                                      h \in Durations}

NextTiming ==
    \/ \E l \in 1..MaxLoads, h \in HostSet, topo \in Topologies : PollMetadataReady(l, h, topo)
    \/ join_group
    \/ JoinPollGroupCoordinator(1)
    \/ \E c \in Brokers : GroupCoordinatorResponse(1, c)
    \/ \E res \in JoinGroupResponses, assigned \in BOOLEAN : JoinGroupResponse(1, res, assigned)
    \/ \E applied \in BOOLEAN : SyncGroupResponse(1, applied)
    \/ HeartbeatTick(1)
    \/ HeartbeatOk(1)

SpecTiming == InitTiming /\ [][NextTiming]_vars

(***************************************************************************)
(* Properties of the metadata refresh (checked under Spec)                 *)
(***************************************************************************)
Waiting(ms) == {ms.waiters[i] : i \in 1..Len(ms.waiters)}
ProduceChan(i) == chan[<<"produce", i, "rpc">>]
\* the Metadata fetch rounds in flight
Fetching == {l \in 1..Len(loads) : loads[l].st = "Metadata"}

\* C1: single-flight refresh: overlapping refresh triggers share one fetch
\* round, so at no time is a second Metadata fetch in flight.
C1_SingleFlight == Cardinality(Fetching) <= 1

\* C2: when update_metadata publishes a snapshot, every sender queued while
\* the status was Loading is resolved with that snapshot and the status is
\* Loaded with it; a queued sender is never dropped or resolved before a
\* publication, and a resolved channel keeps its value until it is received.
C2_WaitersResolved ==
    [][/\ \A w \in WaiterIds : chan[w].st = "open" <=> w \in Waiting(metadata_status)
       /\ metadata_status'.tag = "Loaded" /\ metadata_status' # metadata_status =>
            \A w \in Waiting(metadata_status) :
                chan[w] = ChanOpen /\ chan'[w] = ChanSent(metadata_status'.md)
       /\ \A w \in WaiterIds :
            /\ chan[w].st = "open" =>
                 \/ chan'[w] = ChanOpen /\ w \in Waiting(metadata_status')
                 \/ chan'[w] = ChanSent(metadata_status'.md) /\ metadata_status'.tag = "Loaded"
            /\ chan[w].st = "sent" => chan'[w] \in {chan[w], ChanNone}]_vars

\* two calls queued during the first refresh, both resolved by the snapshot
\* the status now holds
C2_Witness ==
    /\ metadata_status.tag = "Loaded"
    /\ \A i \in 1..2 :
        /\ produces[i].st = "wait" /\ produces[i].during = "Loading"
        /\ ProduceChan(i) = ChanSent(metadata_status.md)

\* C3 as stated: no produce_records sends its request while the metadata
\* status is Loading.
C3_NoSendWhileLoading ==
    [][\A i \in 1..MaxProduce :
        produces[i].st = "wait" /\ produces'[i].st = "sent" => metadata_status.tag = "Loaded"]_vars

\* C3 amended: a produce_records sends only once its receiver holds a snapshot,
\* and routes with that snapshot; a call made during Loading gets its snapshot
\* from the publication that ends it, and two calls queued in one Loading are
\* resolved together with the same snapshot.
C3_SendAfterPublish ==
    [][\A i \in 1..MaxProduce :
        /\ produces[i].st = "wait" /\ produces'[i].st = "sent" =>
             /\ ProduceChan(i).st = "sent"
             /\ produces'[i].md = ProduceChan(i).val
             /\ produces'[i].md.by >= 1
             /\ produces'[i].addr = IF produces'[i].md.leader # NoBroker
                                    THEN <<"broker", produces'[i].md.leader>>
                                    ELSE <<"host", 1>>
        /\ ProduceChan(i).st = "open" /\ ProduceChan(i)'.st = "sent" =>
             /\ metadata_status.tag = "Loading" /\ metadata_status'.tag = "Loaded"
             /\ ProduceChan(i)'.val = metadata_status'.md
             /\ \A k \in 1..MaxProduce :
                  ProduceChan(k).st = "open" => ProduceChan(k)' = ProduceChan(i)']_vars

\* both calls were made during the first refresh and have sent with its snapshot
C3_Witness ==
    \A i \in 1..2 :
        /\ produces[i].during = "Loading" /\ produces[i].st = "sent"
        /\ produces[i].md.by = 1

(***************************************************************************)
(* Properties of the typed RPCs (checked under SpecRpc)                    *)
(***************************************************************************)
\* the retriable errors
RetriableErrors ==
    {"LeaderNotAvailable", "NotLeaderForPartition", "UnknownTopicOrPartition",
     "NetworkException", "GroupCoordinatorNotAvailable", "NotCoordinatorForGroup"}

\* C16: a produce_records whose request fails with a retriable error is not
\* completed with that error at once: a metadata refresh is started and the
\* request is sent again.
C16_RetriableErrorRetried ==
    [][\A i \in 1..MaxProduce :
        /\ produces[i].st = "sent"
        /\ produces'[i].result = "Err" /\ produces'[i].code \in RetriableErrors
        => produces'[i].st # "done" /\ Len(loads') = Len(loads) + 1]_vars

\* C17: a produce_records whose response carries an error code other than
\* None completes with an error, never with a successful value.
C17_ErrorCodeLifted ==
    [][\A i \in 1..MaxProduce :
        /\ produces[i].st = "sent" /\ produces'[i].st = "done"
        /\ produces'[i].code # "None"
        => produces'[i].result = "Err"]_vars

(***************************************************************************)
(* More properties of the metadata refresh (checked under Spec)            *)
(***************************************************************************)
\* C18: with metadata_max_age > 0 every refresh that is started leaves a timer
\* pending for the refresh after it; with metadata_max_age = 0 there is never
\* a timer.
C18_RefreshRecurs ==
    [][/\ config.metadata_max_age > 0 /\ Len(loads') = Len(loads) + 1 => timeouts' > 0
       /\ config.metadata_max_age = 0 => timeouts = 0 /\ timeouts' = 0]_vars

\* C19: a fetch sends one Metadata request to every bootstrap address; while
\* a request is outstanding its successful response completes the fetch; the
\* fetch fails only with the failure of the last outstanding request, every
\* other address having failed before.
C19_FirstSuccessWins ==
    [][\A l \in 1..MaxLoads :
        /\ Len(loads) < l /\ l <= Len(loads') =>
              loads'[l].st = "Metadata" /\ loads'[l].pending = HostSet
        /\ l <= Len(loads) /\ loads[l].st = "Metadata" =>
              /\ loads[l].pending # {}
              /\ \A h \in loads[l].pending :
                    ENABLED (\E topo \in Topologies : PollMetadataReady(l, h, topo))
              /\ loads'[l].st = "Failed" => Cardinality(loads[l].pending) = 1
              /\ loads'[l].st = "Metadata" =>
                    loads'[l].pending # {} /\ loads'[l].pending \subseteq loads[l].pending]_vars

\* the request to the first address has failed, the fetch has not, and the
\* one to the second address can still complete it
C19_Witness ==
    /\ loads[1].st = "Metadata" /\ loads[1].pending = {Hosts[2]}
    /\ ENABLED (\E topo \in Topologies : PollMetadataReady(1, Hosts[2], topo))

\* the step in which load l publishes its snapshot
Publishes(l) ==
    l <= Len(loads) /\ loads[l].st \in {"Metadata", "ApiVersions"} /\ loads'[l].st = "Done"

\* C20: with api_version_request a refresh asks every broker of the snapshot
\* it fetched for its ApiVersions and publishes only when the last of them
\* has answered, the snapshot carrying the probed versions; without it no
\* ApiVersions request is made and the snapshot published carries the
\* fallback table.
C20_ApiVersionsBeforePublish ==
    [][\A l \in 1..MaxLoads :
        /\ l <= Len(loads) /\ loads[l].st = "Metadata" /\ loads'[l].st = "ApiVersions" =>
              /\ config.api_version_request
              /\ loads'[l].av = loads'[l].md.brokers /\ loads'[l].av # {}
              /\ metadata_status' = metadata_status /\ chan' = chan
        /\ l <= Len(loads) /\ loads[l].st = "ApiVersions" /\ loads'[l].st = "ApiVersions" =>
              /\ loads'[l].av \subseteq loads[l].av /\ loads'[l].av # {}
              /\ loads'[l].md = loads[l].md
              /\ loads'[l] # loads[l] => metadata_status' = metadata_status /\ chan' = chan
        /\ Publishes(l) =>
              /\ metadata_status'.tag = "Loaded" /\ metadata_status'.md.by = l
              /\ \A w \in Waiting(metadata_status) : chan'[w] = ChanSent(metadata_status'.md)
              /\ IF config.api_version_request
                 THEN /\ metadata_status'.md.api = "probed"
                      /\ \/ /\ loads[l].st = "ApiVersions"
                            /\ Cardinality(loads[l].av) = 1
                            /\ metadata_status'.md.brokers = loads[l].md.brokers
                         \/ loads[l].st = "Metadata" /\ metadata_status'.md.brokers = {}
                 ELSE metadata_status'.md.api = "fallback" /\ loads[l].st = "Metadata"
        /\ l <= Len(loads') /\ ~config.api_version_request =>
              loads'[l].st # "ApiVersions"]_vars

\* a snapshot with two brokers was published with the versions probed from
\* both, resolving a call that waited for it
C20_Witness ==
    /\ config.api_version_request
    /\ metadata_status.tag = "Loaded" /\ metadata_status.md.api = "probed"
    /\ metadata_status.md.brokers = {1, 2}
    /\ ProduceChan(1) = ChanSent(metadata_status.md)

(***************************************************************************)
(* Properties of the consumer coordinator (checked under SpecCoord)        *)
(***************************************************************************)
\* the step in which join j completes successfully (Inner::synced_group)
JoinCompletes(j) == j \in 1..Len(joins) /\ joins[j].pc = "sg_sent" /\ joins'[j].pc = "ok"
\* the step in which the heartbeat of loop k is answered with error e
HeartbeatFails(k, e) ==
    k \in 1..Len(beats) /\ beats[k].pc = "sent" /\ beats'[k].pc = "dead" /\ beats'[k].last = e
\* loop k sent its heartbeat with the generation the state holds
OfStable(k) == coord_state = Stable(beats[k].coordinator, beats[k].generation)
\* the step is a call of join_group / of leave_group
JoinCalled == Len(joins') = Len(joins) + 1
LeaveCalled == Len(leaves') = Len(leaves) + 1

\* C4: a join whose GroupCoordinator, JoinGroup and SyncGroup succeed and whose
\* assignment is applied ends with the state Stable, holding the coordinator
\* the GroupCoordinator response named and the generation (group id,
\* generation id, member id, protocol) of the JoinGroup response.
C4_JoinEndsStable ==
    [][\A j \in 1..MaxJoins :
        /\ JoinCompletes(j) =>
             /\ coord_state' = Stable(joins[j].coordinator, joins[j].generation)
             /\ joins[j].req.api = "SyncGroup"
             /\ joins[j].coordinator \in Brokers
             /\ joins[j].generation.group_id = GroupId
             /\ joins[j].generation.protocol = Protocol
             /\ \E res \in JoinGroupResponses :
                  /\ joins[j].generation.generation_id = res.generation_id
                  /\ joins[j].generation.member_id = res.member_id
        \* the coordinator and the generation are those of the responses
        /\ j \in 1..Len(joins) /\ joins[j].pc \in {"jg_wait", "jg_sent", "sg_wait", "sg_sent"}
             /\ joins'[j].pc \notin {"ok", "err"} =>
             joins'[j].coordinator = joins[j].coordinator
        /\ j \in 1..Len(joins) /\ joins[j].pc \in {"sg_wait", "sg_sent"}
             /\ joins'[j].pc \notin {"ok", "err"} =>
             joins'[j].generation = joins[j].generation]_vars

\* the first join, made in Unjoined, has completed: Stable with coordinator 2
\* and the generation <g, 2, m2, range>
C4_Witness ==
    /\ Len(joins) = 1 /\ joins[1].pc = "ok"
    /\ coord_state = Stable(2, [group_id |-> GroupId, generation_id |-> 2,
                                member_id |-> "m2", protocol |-> Protocol])

\* C11: in the SyncGroup step only the member the JoinGroup response elects
\* leader (leader_id = member_id) runs perform_assignment, and its SyncGroup
\* request carries the assignment computed; a follower never runs it and its
\* request carries the empty list.
C11_OnlyLeaderAssigns ==
    [][\A j \in 1..MaxJoins :
        j \in 1..Len(joins) =>
          LET jr == joins'[j]
              lead == jr.leader_id = jr.generation.member_id IN
          /\ joins[j].pc = "jg_sent" /\ jr.pc \in {"sg_wait", "sg_sent"} =>
                /\ jr.leader_id \in MemberIds
                /\ jr.performed <=> lead
                /\ lead => jr.group_assignment = SomeAssignment(perform_assignment(Members))
                /\ ~lead => jr.group_assignment = NoAssignment
          /\ joins[j].pc = "sg_wait" /\ jr.pc \in {"sg_wait", "sg_sent"} =>
                /\ jr.leader_id = joins[j].leader_id
                /\ jr.performed = joins[j].performed
                /\ jr.group_assignment = joins[j].group_assignment
          /\ joins[j].pc # "sg_sent" /\ jr.pc = "sg_sent" =>
                /\ jr.req.api = "SyncGroup"
                /\ lead => jr.performed /\ jr.sync_assignment = perform_assignment(Members)
                /\ ~lead => ~jr.performed /\ jr.sync_assignment = <<>>]_vars

\* one join has sent its SyncGroup as a follower with the empty list while
\* another has sent its own as the leader with an assignment for every member
C11_Witness ==
    \E j1, j2 \in 1..Len(joins) :
        /\ joins[j1].pc = "sg_sent" /\ joins[j1].leader_id # joins[j1].generation.member_id
        /\ joins[j1].sync_assignment = <<>> /\ ~joins[j1].performed
        /\ joins[j2].pc = "sg_sent" /\ joins[j2].leader_id = joins[j2].generation.member_id
        /\ Len(joins[j2].sync_assignment) = Len(Members) /\ joins[j2].performed

\* C5: the JoinGroup request of a join carries the member id the coordinator
\* had when join_group was called: that of the Stable generation on a re-join,
\* the empty string otherwise.
C5_JoinCarriesMemberId ==
    [][JoinCalled => joins'[Len(joins')].member_id = member_id(coord_state)]_vars

\* C6: a heartbeat of the Stable generation answered with RebalanceInProgress
\* moves the state to Rebalancing and starts a new join.
C6_RebalanceInProgressRejoins ==
    [][\A k \in 1..MaxJoins :
        HeartbeatFails(k, "RebalanceInProgress") /\ OfStable(k) =>
            coord_state'.tag = "Rebalancing" /\ JoinCalled]_vars

\* C7: a heartbeat of the Stable generation answered with IllegalGeneration or
\* UnknownMemberId moves the state to Rebalancing, the member id reset.
C7_IllegalGenerationResets ==
    [][\A k \in 1..MaxJoins, e \in {"IllegalGeneration", "UnknownMemberId"} :
        HeartbeatFails(k, e) /\ OfStable(k) =>
            coord_state'.tag = "Rebalancing" /\ member_id(coord_state') = ""]_vars

\* C8: a heartbeat of the Stable generation that fails with a network error
\* does not end the heartbeats: a loop of that generation is still running.
C8_NetworkErrorKeepsHeartbeat ==
    [][\A k \in 1..MaxJoins :
        HeartbeatFails(k, "NetworkException") /\ OfStable(k) =>
            \E k2 \in 1..Len(beats') :
                /\ beats'[k2].pc # "dead"
                /\ beats'[k2].generation = coord_state'.generation]_vars

\* the LeaveGroup request leave n has to send
LeaveReq(lv) ==
    [api |-> "LeaveGroup", to |-> <<"broker", lv.coordinator>>,
     group_id |-> lv.generation.group_id, generation_id |-> 0,
     member_id |-> lv.generation.member_id]

\* what C9 and its amended form share: leave_group in Stable{c, g} leaves the
\* state Unjoined at once and keeps c and g for its request; a request it
\* sends is the LeaveGroup of g to c, and it sends no second one; the outcome
\* of the request does not touch the state.
LeaveFromStable ==
    /\ LeaveCalled /\ coord_state.tag = "Stable" =>
         /\ coord_state' = Unjoined
         /\ leaves'[Len(leaves')].pc = "wait"
         /\ leaves'[Len(leaves')].nsent = 0
         /\ leaves'[Len(leaves')].coordinator = coord_state.coordinator
         /\ leaves'[Len(leaves')].generation = coord_state.generation
         /\ coord_state.generation.group_id = GroupId
         /\ coord_state.generation.member_id \in MemberIds
    /\ \A n \in 1..Len(leaves) :
         /\ leaves'[n].nsent # leaves[n].nsent =>
              /\ leaves[n].nsent = 0 /\ leaves'[n].nsent = 1
              /\ leaves'[n].req = LeaveReq(leaves[n])
         /\ leaves[n].pc = "sent" /\ leaves'[n].pc # "sent" => coord_state' = coord_state
         /\ leaves[n].pc \in {"ok", "err"} => leaves'[n] = leaves[n]

\* C9 as stated: every leave_group made in Stable sends exactly one request.
C9_LeaveSendsExactlyOne ==
    [][/\ LeaveFromStable
       /\ \A n \in 1..Len(leaves) :
            leaves[n].from = "Stable" /\ leaves[n].pc = "wait" /\ leaves'[n].pc # "wait" =>
                leaves'[n].nsent = 1]_vars

\* C9 amended: it sends exactly one request when the coordinator resolves in
\* the snapshot the call awaited, and none, failing with BrokerNotFound, when
\* it does not.
C9_LeaveSendsAtMostOne ==
    [][/\ LeaveFromStable
       /\ \A n \in 1..Len(leaves) :
            leaves[n].from = "Stable" /\ leaves[n].pc = "wait" /\ leaves'[n].pc # "wait" =>
                LET md == chan[<<"leave", n, "rpc">>].val IN
                /\ chan[<<"leave", n, "rpc">>].st = "sent"
                /\ leaves[n].coordinator \in md.brokers =>
                     leaves'[n].nsent = 1 /\ leaves'[n].pc = "sent"
                /\ leaves[n].coordinator \notin md.brokers =>
                     leaves'[n].nsent = 0 /\ leaves'[n].pc = "err"
                     /\ leaves'[n].err = "BrokerNotFound"]_vars

\* a leave made in Stable has sent its one request and got its answer, the
\* state being Unjoined
C9_Witness ==
    /\ coord_state = Unjoined
    /\ \E n \in 1..Len(leaves) :
        leaves[n].from = "Stable" /\ leaves[n].pc = "ok" /\ leaves[n].nsent = 1

\* C10: leave_group made in Unjoined or Rebalancing fails at once with
\* GroupLoadInProgress, and never sends a LeaveGroup request.
C10_LeaveNotStable ==
    [][/\ LeaveCalled /\ coord_state.tag # "Stable" =>
            /\ leaves'[Len(leaves')].pc = "err"
            /\ leaves'[Len(leaves')].err = "GroupLoadInProgress"
            /\ leaves'[Len(leaves')].nsent = 0
            /\ chan' = chan
       /\ \A n \in 1..Len(leaves) :
            leaves[n].from # "Stable" =>
                /\ leaves[n].nsent = 0 /\ leaves[n].err = "GroupLoadInProgress"
                /\ leaves'[n] = leaves[n]]_vars

\* a leave_group made while a join was in progress has failed
C10_Witness ==
    \E n \in 1..Len(leaves) :
        /\ leaves[n].from = "Rebalancing" /\ leaves[n].pc = "err"
        /\ leaves[n].err = "GroupLoadInProgress" /\ leaves[n].nsent = 0

\* The snapshot the closure of a typed RPC is given in this step: the value
\* of its channel when the future is polled, metadata_status when the call
\* is made with the metadata Loaded.
HasSeen(w) ==
    chan[w].st = "sent" \/ (chan[w].st = "none" /\ metadata_status.tag = "Loaded")
Seen(w) == IF chan[w].st = "sent" THEN chan[w].val ELSE metadata_status.md
\* the closure is given a snapshot in which ref does not resolve
Stale(w, ref) == HasSeen(w) /\ ref \notin Seen(w).brokers

\* C21: join_group, heartbeat, leave_group and sync_group called with a
\* BrokerRef that does not resolve in the snapshot the call is given fail
\* with BrokerNotFound(ref) and send no request; a request they send goes to
\* a broker of that snapshot.
C21_StaleRefFails ==
    [][/\ \A j \in 1..Len(joins) :
            LET old == joins[j]
                new == joins'[j]
                w == <<"join", j, "rpc">> IN
            /\ new.req # old.req /\ new.req.api \in {"JoinGroup", "SyncGroup"} =>
                 /\ HasSeen(w) /\ new.coordinator \in Seen(w).brokers
                 /\ new.req.to = BrokerAddr(new.coordinator)
            /\ old.pc # "err" /\ new.pc = "err" /\ new.err = "BrokerNotFound" =>
                 /\ Stale(w, new.coordinator) /\ new.coordinator \in Brokers
                 /\ new.req = NoReq
            /\ old.pc \in {"jg_wait", "sg_wait"} /\ new # old /\ Stale(w, old.coordinator) =>
                 /\ new.pc = "err" /\ new.err = "BrokerNotFound"
                 /\ new.coordinator = old.coordinator /\ new.req = NoReq
            /\ old.pc = "jg_sent" /\ new # old /\ Stale(w, old.coordinator) =>
                 new.pc = "err" /\ new.req = NoReq
       /\ \A k \in 1..Len(beats) :
            LET old == beats[k]
                new == beats'[k]
                w == <<"hb", k, "rpc">> IN
            /\ new.req # old.req /\ new.req.api = "Heartbeat" =>
                 /\ HasSeen(w) /\ new.coordinator \in Seen(w).brokers
                 /\ new.req.to = BrokerAddr(new.coordinator)
            /\ old.pc # "dead" /\ new.pc = "dead" /\ new.last = "BrokerNotFound" =>
                 /\ Stale(w, old.coordinator) /\ new.coordinator = old.coordinator
                 /\ new.req = NoReq
            /\ old.pc \in {"idle", "wait"} /\ new # old /\ Stale(w, old.coordinator) =>
                 /\ new.pc = "dead" /\ new.last = "BrokerNotFound"
                 /\ new.coordinator = old.coordinator /\ new.req = NoReq
       /\ \A n \in 1..Len(leaves) :
            LET old == leaves[n]
                new == leaves'[n]
                w == <<"leave", n, "rpc">> IN
            /\ new.req # old.req /\ new.req.api = "LeaveGroup" =>
                 /\ HasSeen(w) /\ old.coordinator \in Seen(w).brokers
                 /\ new.req.to = BrokerAddr(old.coordinator)
            /\ old.pc # "err" /\ new.pc = "err" /\ new.err = "BrokerNotFound" =>
                 /\ Stale(w, old.coordinator) /\ new.coordinator = old.coordinator
                 /\ new.req = NoReq /\ new.nsent = 0
            /\ old.pc = "wait" /\ new # old /\ Stale(w, old.coordinator) =>
                 /\ new.pc = "err" /\ new.err = "BrokerNotFound"
                 /\ new.coordinator = old.coordinator /\ new.req = NoReq]_vars

\* a join, a heartbeat and a leave have each failed with BrokerNotFound(2)
\* after a refresh that no longer lists broker 2
C21_Witness ==
    /\ 2 \notin metadata_status.md.brokers
    /\ \E j \in 1..Len(joins) :
         joins[j].pc = "err" /\ joins[j].err = "BrokerNotFound" /\ joins[j].coordinator = 2
    /\ \E k \in 1..Len(beats) :
         beats[k].pc = "dead" /\ beats[k].last = "BrokerNotFound" /\ beats[k].coordinator = 2
    /\ \E n \in 1..Len(leaves) :
         leaves[n].pc = "err" /\ leaves[n].err = "BrokerNotFound" /\ leaves[n].coordinator = 2

(***************************************************************************)
(* Properties of the correlation ids and of the broker selection (checked  *)
(* under SpecService)                                                      *)
(***************************************************************************)
\* C12: next_correlation_id returns the counter before the increment, so the
\* ids handed out are 0, 1, 2, ... pairwise distinct, wrapping from the
\* greatest id to the least; no call overflows, each returns a value.
C12_CorrelationIds ==
    /\ ~panicked
    /\ \A k \in 1..Len(issued) : issued[k] = wrap(k - 1)
    /\ \A k1, k2 \in 1..Len(issued) : k1 # k2 => issued[k1] # issued[k2]

\* C14: least_loaded_broker returns a broker without requests in flight if
\* the snapshot has one, and otherwise a broker with the least number of
\* requests in flight among the brokers of the snapshot.
C14_LeastLoaded ==
    picked.called /\ picked.result.tag = "Ok" =>
        IF \E b \in picked.brokers : picked.load[b] = 0
        THEN picked.load[picked.result.broker] = 0
        ELSE \A b \in picked.brokers : picked.load[picked.result.broker] <= picked.load[b]

\* C15: least_loaded_broker fails with BrokerNotAvailable exactly when the
\* snapshot has no broker, and otherwise returns a broker of the snapshot.
C15_BrokerNotAvailable ==
    picked.called =>
        /\ picked.result = PickErr("BrokerNotAvailable") <=> picked.brokers = {}
        /\ picked.brokers # {} =>
              picked.result.tag = "Ok" /\ picked.result.broker \in picked.brokers

(***************************************************************************)
(* Properties of the InFlightMiddleware of middleware.rs (checked under    *)
(* SpecMiddleware)                                                         *)
(***************************************************************************)
\* the calls to addr that were issued and have not completed
Outstanding(calls, addr) == calls[addr].issued - calls[addr].completed
\* what in_flight_requests has to read for addr
Counted(calls, addr) ==
    IF calls[addr].issued = 0 THEN None ELSE Some(Outstanding(calls, addr))

\* C13: for every address in_flight_requests reads the number of calls to it
\* that were issued and have not completed (None before the first call): a
\* call adds one, a completion with a response, an error or a timeout takes
\* one off, the count is never negative, and calls to and completions at
\* other addresses do not change it.
C13_InFlightCounts ==
    [][\A a \in Addrs :
        /\ in_flight_requests(mw_requests, a) = Counted(mw_calls, a)
        /\ in_flight_requests(mw_requests', a) = Counted(mw_calls', a)
        /\ in_flight_requests(mw_requests', a).n >= 0
        /\ mw_calls'[a].issued = mw_calls[a].issued + 1 =>
              /\ in_flight_requests(mw_requests', a) =
                    Some(in_flight_requests(mw_requests, a).n + 1)
              /\ \A a2 \in Addrs \ {a} :
                    in_flight_requests(mw_requests', a2) = in_flight_requests(mw_requests, a2)
        /\ mw_calls'[a].completed = mw_calls[a].completed + 1 =>
              /\ in_flight_requests(mw_requests, a).n >= 1
              /\ in_flight_requests(mw_requests', a) =
                    Some(in_flight_requests(mw_requests, a).n - 1)
              /\ \A a2 \in Addrs \ {a} :
                    in_flight_requests(mw_requests', a2) = in_flight_requests(mw_requests, a2)]_vars

\* two calls were made to one address and one of them has completed, all the
\* calls to a second address have completed, a third was never called
C13_Witness ==
    \E a1, a2, a3 \in Addrs :
        /\ mw_calls[a1].issued = 2 /\ mw_calls[a1].completed = 1
        /\ in_flight_requests(mw_requests, a1) = Some(1)
        /\ mw_calls[a2].issued = 1 /\ mw_calls[a2].completed = 1
        /\ in_flight_requests(mw_requests, a2) = Some(0)
        /\ mw_calls[a3].issued = 0 /\ in_flight_requests(mw_requests, a3) = None

(***************************************************************************)
(* Properties of the message-set codec (SpecCodec).                        *)
(***************************************************************************)
\* the messages of the set carry no codec and a timestamp exactly when the
\* format version v has one
StoredAs(messages, v) ==
    \A k \in 1..Len(messages) :
        /\ messages[k].compression = CompressionNone
        /\ messages[k].timestamp.some = (v > 0)

\* C22: parse_message_set applied to the bytes MessageSetEncoder::encode wrote
\* for a message set yields that message set, for the format versions 0 and
\* 1 and keys and values that are null, empty or not empty (here already for
\* the sets without codec whose timestamps fit the version).
C22_RoundTrip ==
    (parsed.by = "parse_message_set" /\ StoredAs(message_set, codec_version)) =>
        parsed.res = Done(<<>>, message_set)

(***************************************************************************)
(* Properties of the parser on damaged bytes (SpecWire).                   *)
(***************************************************************************)
\* the messages without the k-th
Without(messages, k) == SubSeq(messages, 1, k - 1) \o SubSeq(messages, k + 1, Len(messages))

\* C23: a message whose stored crc does not match the CRC-32 of the bytes
\* after the crc field is dropped from the decoded set: decoding does not
\* fail and every other message of the set is decoded.
C23_CorruptMessageSkipped ==
    (parsed.by = "parse_message_set" /\ damage.kind = "flip") =>
        /\ parsed.res.tag = "Done"
        /\ parsed.res.val = Without(message_set, damage.message)

\* C24: a message set whose bytes end in the middle of a message decodes to
\* exactly the complete messages before that one; the truncation is the end
\* of the set, not an error.
C24_TruncatedTailEndsSet ==
    (parsed.by = "parse_message_set" /\ damage.kind = "truncate") =>
        /\ parsed.res.tag = "Done"
        /\ parsed.res.val = SubSeq(message_set, 1, damage.message - 1)

(***************************************************************************)
(* Properties of the encoder of compressed sets (SpecCodec).               *)
(***************************************************************************)
\* the n messages handed to the encoder all carry the codec Snappy
AllSnappy(messages) ==
    /\ Len(messages) > 0
    /\ \A k \in 1..Len(messages) : messages[k].compression = Snappy

\* C25: n records with a codec other than None are written as a single outer
\* message whose attributes carry the codec in their low three bits and whose
\* offset is n - 1 (the inner set, in its value, has the offsets 0..n-1),
\* and decoding gives n messages with the offsets 0..n-1.
C25_CompressedBatch ==
    (parsed.by = "parse_message_set" /\ AllSnappy(message_set)) =>
        /\ get_int(SubSeq(buf, 1, 4)) = 1
        /\ get_int(SubSeq(buf, 5, 12)) = Len(message_set) - 1
        /\ buf[22] % (COMPRESSION_CODEC_MASK + 1) = Snappy
        /\ parsed.res.tag = "Done"
        /\ Len(parsed.res.val) = Len(message_set)
        /\ \A k \in 1..Len(message_set) : parsed.res.val[k].offset = k - 1

(***************************************************************************)
(* Properties of the Fetch response parser (SpecFetch).                    *)
(***************************************************************************)
\* C26: parse_fetch_response accepts the Fetch versions 0 to 3: it reads
\* throttle_time exactly when the version is greater than 0, and well-formed
\* messages in the response (magic 0 without timestamp, magic 1 with one)
\* decode at each of the versions.
C26_FetchVersions ==
    parsed.by = "parse_fetch_response" =>
        /\ parsed.res.tag = "Done"
        /\ parsed.res.val.throttle_time =
              (IF codec_version > 0 THEN Some(fetch.throttle_time) ELSE None)
        /\ parsed.res.val.topics[1].partitions[1].message_set = message_set

(***************************************************************************)
(* Properties of the request header (SpecHeader).                          *)
(***************************************************************************)
\* the ApiVersions request of the test test_encode_api_versions_request and
\* the bytes it expects
TestRequest == RequestHeader(18, 0, 123, SomeBytes(<<99, 108, 105, 101, 110, 116>>))
TEST_REQUEST_DATA == <<0, 18, 0, 0, 0, 0, 0, 123, 0, 6, 99, 108, 105, 101, 110, 116>>

\* C27: an encoded request header holds api_key (i16), api_version (i16),
\* correlation_id (i32) and client_id (i16 length, then the bytes) in that
\* order, big-endian; the number of bytes written is size(api_version); the
\* ApiVersions request with correlation id 123 and client id "client" is
\* 00 12 00 00 00 00 00 7B 00 06 63 6C 69 65 6E 74.
C27_HeaderLayout ==
    buf # <<>> =>
        /\ Len(buf) >= 10
        /\ get_int(SubSeq(buf, 1, 2)) = request.api_key
        /\ get_int(SubSeq(buf, 3, 4)) = request.api_version
        /\ get_int(SubSeq(buf, 5, 8)) = request.correlation_id
        /\ get_int(SubSeq(buf, 9, 10)) =
              (IF request.client_id.some THEN Len(request.client_id.bytes) ELSE -1)
        /\ SubSeq(buf, 11, Len(buf)) = request.client_id.bytes
        /\ Len(buf) = header_size(request, request.api_version)
        /\ request = TestRequest => buf = TEST_REQUEST_DATA

\* the request of the test has been encoded
C27_Witness ==
    /\ request = TestRequest
    /\ buf = TEST_REQUEST_DATA

(***************************************************************************)
(* Properties of the length-prefixed primitives (SpecPrimitives).          *)
(***************************************************************************)
\* the width of the length prefix the parser reads
PrefixWidth == IF parsed.by = "parse_bytes" THEN 4 ELSE 2
\* buf holds a whole length prefix; the length it announces
HasPrefix == Len(buf) >= PrefixWidth
PrefixLen == get_int(SubSeq(buf, 1, PrefixWidth))
\* buf holds the bytes the prefix announces; those bytes, and what follows
HasData == HasPrefix /\ PrefixLen > 0 /\ Len(buf) >= PrefixWidth + PrefixLen
DataBytes == SubSeq(buf, PrefixWidth + 1, PrefixWidth + PrefixLen)
AfterData == SubSeq(buf, PrefixWidth + PrefixLen + 1, Len(buf))
AfterPrefix == SubSeq(buf, PrefixWidth + 1, Len(buf))
\* the input is shorter than its length prefix: the prefix is cut, or the
\* bytes it announces are
TooShort ==
    \/ ~HasPrefix
    \/ PrefixLen > 0 /\ Len(buf) < PrefixWidth + PrefixLen

C29_TimingBounds ==
    (Len(joins) > 0 \/ Len(beats) > 0) =>
        /\ 3 * timing.heartbeat_interval < timing.session_timeout
        /\ timing.rebalance_timeout >= timing.session_timeout

(***************************************************************************)
(* Properties of the counts the client's service keeps (SpecService).      *)
(***************************************************************************)
\* C30: the count least_loaded_broker reads from the client's own service
\* reflects the requests the client has sent: while requests to an address
\* have not completed, in_flight_requests of that address is the number of
\* those requests, at least 1.
C30_CountReflectsRequests ==
    \A b \in Brokers :
        in_flight[b] > 0 =>
            in_flight_requests(requests, BrokerAddr(b)) = Some(in_flight[b])

(***************************************************************************)
(* Properties of the join and of the loops it leaves behind (SpecCoord).   *)
(***************************************************************************)
\* join j has not completed
InFlight(j) == j \in 1..Len(joins) /\ joins[j].pc \notin {"ok", "err"}
\* the step in which join j fails
JoinFails(j) == InFlight(j) /\ joins'[j].pc = "err"

\* C31: join_group sets the state to Rebalancing when it is called, before
\* any request of the join is sent; when a step of the join fails (the
\* GroupCoordinator, JoinGroup or SyncGroup request, the lookup of the
\* coordinator, the assignment of the leader, decoding or applying the
\* assignment received) the state is Unjoined and the future holds the error.
C31_JoinFailureUnjoins ==
    [][/\ JoinCalled =>
            /\ coord_state' = Rebalancing
            /\ joins'[Len(joins')].pc = "gc_wait"
            /\ joins'[Len(joins')].req = NoReq
       /\ \A j \in 1..MaxJoins :
            JoinFails(j) =>
                /\ coord_state' = Unjoined
                /\ joins'[j].err \in {"BrokerNotAvailable", "BrokerNotFound", "KafkaError",
                                      "Assignment"}]_vars

\* a join has failed at each of its steps: one at the assignment, after its
\* JoinGroup or SyncGroup, and one at a request or a lookup
C31_Witness ==
    /\ Len(joins) = 2
    /\ joins[1].pc = "err" /\ joins[1].err = "Assignment"
    /\ joins[2].pc = "err" /\ joins[2].err \in {"KafkaError", "BrokerNotFound"}
    /\ coord_state = Unjoined

\* the requests of a join in the order they are sent
NextRequest(api) ==
    IF api = "none" THEN "GroupCoordinator"
    ELSE IF api = "GroupCoordinator" THEN "JoinGroup"
    ELSE "SyncGroup"

\* C32: a join sends GroupCoordinator, JoinGroup and SyncGroup in that order;
\* the state becomes Stable only in the step in which the SyncGroup response
\* has been received, decoded and applied; the heartbeat loop is started only
\* in that step, with the state Stable, and its first heartbeat waits for the
\* first tick of the interval.
C32_JoinOrder ==
    [][/\ \A j \in 1..MaxJoins :
            (j \in 1..Len(joins) /\ joins'[j].req # joins[j].req /\ joins'[j].req # NoReq) =>
                /\ joins[j].req.api # "SyncGroup"
                /\ joins'[j].req.api = NextRequest(joins[j].req.api)
       /\ (coord_state'.tag = "Stable" /\ coord_state' # coord_state) =>
            \E j \in 1..Len(joins) :
                /\ JoinCompletes(j)
                /\ joins[j].req.api = "SyncGroup"
                /\ coord_state' = Stable(joins[j].coordinator, joins[j].generation)
       /\ Len(beats') # Len(beats) =>
            /\ Len(beats') = Len(beats) + 1
            /\ \E j \in 1..Len(joins) : JoinCompletes(j)
            /\ coord_state' = Stable(beats'[Len(beats')].coordinator,
                                     beats'[Len(beats')].generation)
            /\ beats'[Len(beats')].pc = "idle"
            /\ beats'[Len(beats')].req = NoReq]_vars

\* a join has gone through its three requests: the state is Stable, the loop
\* of its generation exists and has not sent a heartbeat yet
C32_Witness ==
    /\ Len(joins) = 1 /\ joins[1].pc = "ok"
    /\ coord_state.tag = "Stable"
    /\ Len(beats) = 1 /\ beats[1].pc = "idle" /\ beats[1].req = NoReq
    /\ beats[1].generation = coord_state.generation

\* the step in which loop k sends a heartbeat
HeartbeatSent(k) == k \in 1..Len(beats) /\ beats[k].pc # "sent" /\ beats'[k].pc = "sent"
\* the loops that are still running
Running == {k \in 1..Len(beats) : beats[k].pc # "dead"}

\* C33: a heartbeat is sent only while the state is Stable and carries the
\* generation of that state, and at most one heartbeat loop runs: after
\* leave_group, after a failed re-join and after a later join no heartbeat
\* of the old generation is sent.
C33_HeartbeatsOfStableOnly ==
    [][/\ \A k \in 1..MaxJoins :
            HeartbeatSent(k) =>
                /\ coord_state.tag = "Stable"
                /\ beats'[k].req.generation_id = coord_state.generation.generation_id
                /\ beats'[k].req.member_id = coord_state.generation.member_id
       /\ Cardinality(Running) <= 1]_vars

\* the step in which join j ends, with a result or with an error
JoinEnds(j) == InFlight(j) /\ joins'[j].pc \in {"ok", "err"}
\* join_group was called again after join j was
LaterJoin(j) == j < Len(joins)
\* leave_group was called after join j was: join j set the state to
\* Rebalancing at its call, and only leave_group or a failed join sets Unjoined
LaterLeave(j) ==
    /\ InFlight(j) /\ coord_state = Unjoined
    /\ \A i \in 1..Len(joins) : joins[i].pc # "err"

\* C34: when join_group or leave_group was called after a join was, the end
\* of that join, with a result or with an error, does not change the state.
C34_StaleJoinKeepsState ==
    [][\A j \in 1..MaxJoins :
        JoinEnds(j) /\ (LaterJoin(j) \/ LaterLeave(j)) => coord_state' = coord_state]_vars

\* C35: a leave_group that fails with GroupLoadInProgress, called in a state
\* other than Stable, leaves the state as it was.
C35_FailedLeaveKeepsState ==
    [][LeaveCalled /\ leaves'[Len(leaves')].err = "GroupLoadInProgress" => coord_state' = coord_state]_vars


(***************************************************************************)
(* Properties of the metadata status and of the routing by it              *)
(***************************************************************************)
\* C36: every future that metadata() returned completes in the end, with a
\* snapshot or with an error: a receiver whose sender is queued in the status
\* does not stay queued for ever, whatever metadata_max_age is, a refresh
\* that fails included.
C36_MetadataCompletes ==
    \A i \in 1..MaxProduce :
        (chan[<<"produce", i, "rpc">>].st = "open") ~> (chan[<<"produce", i, "rpc">>].st # "open")


\* the refreshes still in flight
Refreshing(ls) == {l \in 1..Len(ls) : ls[l].st \in {"Metadata", "ApiVersions"}}

\* C37: of two refreshes that overlap, the snapshot left published is that of
\* the one started last: a snapshot published is never replaced by the
\* snapshot of a refresh started earlier, and the status is Loaded only when
\* no refresh is in flight.
C37_LastStartedWins ==
    [][/\ metadata_status'.tag = "Loaded" => Refreshing(loads') = {}
       /\ metadata_status.tag = "Loaded" /\ metadata_status'.tag = "Loaded" =>
            metadata_status'.md.by >= metadata_status.md.by]_vars

\* C39: the Produce request for a partition goes to the leader of the
\* partition in the snapshot the call awaited, and when the snapshot names no
\* leader no Produce request goes to another node.
C39_ProduceToLeaderOnly ==
    [][\A i \in 1..MaxProduce :
        produces[i].st = "wait" /\ produces'[i].st = "sent" =>
            /\ produces'[i].md = ProduceChan(i).val
            /\ produces'[i].md.leader # NoBroker
            /\ produces'[i].addr = BrokerAddr(produces'[i].md.leader)]_vars


(***************************************************************************)
(* The in-flight count and the futures that are dropped (SpecMiddleware)   *)
(***************************************************************************)
\* C38: a request that is cancelled does not stay counted: the count of an
\* address is the number of calls to it whose future is alive, so that once
\* a fetch to several addresses is over, the futures of the addresses that
\* did not answer first being dropped, every count is back where it was.
C38_DroppedNotCounted ==
    \A a \in Addrs :
        mw_calls[a].issued > 0 => in_flight_requests(mw_requests, a) = Some(Alive(a))


(***************************************************************************)
(* Properties of fetch_offsets (SpecOffsets)                               *)
(***************************************************************************)
\* C40: the outcome of fetch_offsets accounts for every partition asked
\* about: when the call succeeds each of them is in the result with an
\* offset, a partition without a leader or answered with an error code
\* included; otherwise the call fails.
C40_EveryPartitionAccounted ==
    offsets.pc = "ok" => offsets.requested \subseteq offsets.result

====
